---- MODULE Spec2Model ----
(***************************************************************************)
(* Model of the rich-text diff viewer (src/src/RichTextDiffViewer.tsx):    *)
(* the tree indexer, the node aligner, the text diff engine, the highlight *)
(* applicators and the orchestrating effect of the RichTextDiffViewer      *)
(* component.                                                              *)
(*                                                                         *)
(* Strings are sequences of one-character strings.  A DOM node is a record *)
(*   [kind, tag, attrs, kids, text]                                        *)
(* kind = "text" (text holds the characters) or "elem" (tag, attrs, kids). *)
(* An attribute is [name, value], value being the sequence of its          *)
(* space-separated tokens.  Indices kept in paths are 0-based as in the    *)
(* source; sequences are 1-based.                                          *)
(***************************************************************************)
EXTENDS Integers, Sequences, FiniteSets, TLC

(***************************************************************************)
(* Generic helpers                                                         *)
(***************************************************************************)
Max(a, b) == IF a >= b THEN a ELSE b

Min(a, b) == IF a <= b THEN a ELSE b

Range(s) == {s[i] : i \in 1..Len(s)}

\* JavaScript String.prototype.substring(from, to) with 0-based offsets,
\* for 0 <= from and from <= to; offsets beyond the length are clamped.
Substring(s, from, to) ==
    LET clamp(i) == Max(0, Min(i, Len(s)))
    IN  SubSeq(s, Min(clamp(from), clamp(to)) + 1, Max(clamp(from), clamp(to)))

\* String.prototype.substring(from) to the end of the string.
SubstringFrom(s, from) == SubSeq(s, Max(0, Min(from, Len(s))) + 1, Len(s))

RECURSIVE Flatten(_)
\* Concatenation of a sequence of sequences.
Flatten(ss) == IF ss = <<>> THEN <<>> ELSE Head(ss) \o Flatten(Tail(ss))

IsPrefix(p, q) == Len(p) <= Len(q) /\ SubSeq(q, 1, Len(p)) = p

(***************************************************************************)
(* Characters                                                              *)
(***************************************************************************)
SPACE == " "

\* U+00A0, the placeholder performDiff maps spaces to.
NBSP == "nbsp"

\* The characters JavaScript's \s matches, among those of the model.
IsWhitespace(c) == c \in {SPACE, NBSP}

\* The punctuation class [.,;:!?()] of wordPattern.
IsPunctuation(c) == c \in {".", ",", ";", ":", "!", "?", "(", ")"}

\* /^\s+$/.test(text)
IsWhitespaceOnly(text) == text # <<>> /\ \A i \in 1..Len(text) : IsWhitespace(text[i])

\* text.trim().length > 0 : some character is not whitespace.
HasNonWhitespace(text) == \E i \in 1..Len(text) : ~IsWhitespace(text[i])

(***************************************************************************)
(* DOM                                                                     *)
(***************************************************************************)
TextNode(s) == [kind |-> "text", tag |-> "", attrs |-> <<>>, kids |-> <<>>, text |-> s]

Element(tag, attrs, kids) ==
    [kind |-> "elem", tag |-> tag, attrs |-> attrs, kids |-> kids, text |-> <<>>]

Attr(name, value) == [name |-> name, value |-> value]

\* The null reference, shaped like a node so that it can be compared with one.
NullNode == [kind |-> "null", tag |-> "", attrs |-> <<>>, kids |-> <<>>, text |-> <<>>]

IsElement(n) == n.kind = "elem"

IsText(n) == n.kind = "text"

RECURSIVE textContent(_)
\* Node.textContent: the concatenated text of all descendant text nodes.
textContent(n) ==
    IF IsText(n) THEN n.text
    ELSE Flatten([i \in 1..Len(n.kids) |-> textContent(n.kids[i])])

RECURSIVE findNodeByPath(_, _)
\* findNodeByPath: follows childNodes indices; NullNode when an index is absent.
findNodeByPath(root, path) ==
    IF path = <<>> THEN root
    ELSE IF Head(path) + 1 > Len(root.kids) THEN NullNode
    ELSE findNodeByPath(root.kids[Head(path) + 1], Tail(path))

RECURSIVE ReplaceAt(_, _, _)
\* The tree root with the node at childNodes path `path` replaced by the
\* sequence of nodes `repl` (parent.replaceChild(fragment, node)).
ReplaceAt(root, path, repl) ==
    LET i == Head(path) + 1 IN
    IF Len(path) = 1
    THEN [root EXCEPT !.kids = SubSeq(@, 1, i - 1) \o repl \o SubSeq(@, i + 1, Len(@))]
    ELSE [root EXCEPT !.kids[i] = ReplaceAt(@, Tail(path), repl)]

\* element.getAttribute(name) || "" as a token sequence.
GetAttribute(n, name) ==
    LET hits == SelectSeq(n.attrs, LAMBDA a : a.name = name)
    IN  IF hits = <<>> THEN <<>> ELSE hits[1].value

\* element.setAttribute(name, value): in place when present, appended otherwise.
SetAttribute(n, name, value) ==
    IF \E i \in 1..Len(n.attrs) : n.attrs[i].name = name
    THEN [n EXCEPT !.attrs = [i \in 1..Len(@) |->
                IF @[i].name = name THEN Attr(name, value) ELSE @[i]]]
    ELSE [n EXCEPT !.attrs = Append(@, Attr(name, value))]

\* element.classList.add(token): no duplicate is added.
ClassListAdd(n, token) ==
    LET cur == GetAttribute(n, "class")
    IN  IF token \in Range(cur) THEN n ELSE SetAttribute(n, "class", Append(cur, token))

HasClass(n, token) == IsElement(n) /\ token \in Range(GetAttribute(n, "class"))

(***************************************************************************)
(* Tree indexer                                                            *)
(***************************************************************************)
RECURSIVE extractTextNodesFrom(_, _, _, _)
\* The loop of extractTextNodes from child index i (0-based) on, `pos` being
\* textPositions.pos on entry: the text nodes below root in document order,
\* each with its childNodes path and its [startPos, endPos) range.
extractTextNodesFrom(root, path, i, pos) ==
    IF i >= Len(root.kids) THEN <<>>
    ELSE LET node == root.kids[i + 1]
             currentPath == Append(path, i)
             here == IF IsText(node)
                     THEN <<[path |-> currentPath, text |-> node.text,
                             startPos |-> pos, endPos |-> pos + Len(node.text)]>>
                     ELSE extractTextNodesFrom(node, currentPath, 0, pos)
         IN  here \o extractTextNodesFrom(root, path, i + 1, pos + Len(textContent(node)))

\* A walk whose position counter starts again at each text node.
extractTextNodes_Restart(root) ==
    LET walk == extractTextNodesFrom(root, <<>>, 0, 0)
    IN  [k \in 1..Len(walk) |->
            [walk[k] EXCEPT !.startPos = 0, !.endPos = Len(walk[k].text)]]

extractTextNodes(root) == extractTextNodesFrom(root, <<>>, 0, 0)

\* Attributes of the editor's private namespace: attr.name.startsWith("data-lexical").
IsLexicalAttr(name) == name \in {"data-lexical-text", "data-lexical-node"}

\* The signature processNode builds: tag, the attributes outside the editor's
\* namespace in document order, and childNodes.length.
Signature(node) ==
    [tag |-> node.tag,
     attributes |-> SelectSeq(node.attrs, LAMBDA a : ~IsLexicalAttr(a.name)),
     count |-> Len(node.kids)]

\* The childNodes positions (1-based) of the element children, in order:
\* node.children.
ElementPositions(kids) ==
    LET F[i \in 0..Len(kids)] ==
            IF i = 0 THEN <<>>
            ELSE IF IsElement(kids[i]) THEN Append(F[i - 1], i) ELSE F[i - 1]
    IN  F[Len(kids)]

RECURSIVE processNode(_, _, _, _)
\* createNodeMap.processNode: the records of node and of its element
\* descendants in insertion (pre-)order.  path counts element children only;
\* element is the childNodes path that locates the element in its container.
processNode(node, path, element, depth) ==
    LET pos == ElementPositions(node.kids)
    IN  <<[path |-> path, element |-> element, signature |-> Signature(node),
           textContent |-> textContent(node), depth |-> depth,
           parent |-> SubSeq(path, 1, Len(path) - 1)]>>
        \o Flatten([k \in 1..Len(pos) |->
                processNode(node.kids[pos[k]], Append(path, k - 1),
                            Append(element, pos[k] - 1), depth + 1)])

\* createNodeMap: the entries of the Map in insertion order.
createNodeMap(container) ==
    LET pos == ElementPositions(container.kids)
    IN  Flatten([k \in 1..Len(pos) |->
            processNode(container.kids[pos[k]], <<k - 1>>, <<pos[k] - 1>>, 0)])

MaxDepthOf(entries) ==
    IF entries = <<>> THEN 0
    ELSE CHOOSE d \in {entries[i].depth : i \in 1..Len(entries)} :
            \A i \in 1..Len(entries) : entries[i].depth <= d

\* The comparator of line 184 with its operands swapped: descending depth.
sortNodesByDepth_Descending(entries) ==
    Flatten([d \in 1..(MaxDepthOf(entries) + 1) |->
        SelectSeq(entries, LAMBDA e : e.depth = MaxDepthOf(entries) + 1 - d)])

\* sortNodesByDepth: a stable sort by ascending depth.
sortNodesByDepth(entries) ==
    Flatten([d \in 1..(MaxDepthOf(entries) + 1) |->
        SelectSeq(entries, LAMBDA e : e.depth = d - 1)])

\* hasHighlightedAncestor finding no highlighted parent.
hasHighlightedAncestor_Never(highlighted, path) == FALSE

RECURSIVE hasHighlightedAncestor(_, _)
\* hasHighlightedAncestor: walks the parent references; the container itself
\* (the empty path) has no entry in the map and ends the walk.
hasHighlightedAncestor(highlighted, path) ==
    LET currentParent == SubSeq(path, 1, Len(path) - 1)
    IN  IF path = <<>> \/ currentParent = <<>> THEN FALSE
        ELSE IF currentParent \in highlighted THEN TRUE
        ELSE hasHighlightedAncestor(highlighted, currentParent)

(***************************************************************************)
(* Text diff engine                                                        *)
(*                                                                         *)
(* A DiffOp is [op, text] with op = -1 (delete), 0 (equal), 1 (insert).    *)
(* diff-match-patch is a library outside the repository: its three calls   *)
(* are modelled by their contract.  diff_main(a, b) returns some script    *)
(* that rebuilds a from its non-insert fragments and b from its non-delete *)
(* fragments, with no empty fragment, equalities and change blocks         *)
(* alternating and, in a change block, the deletion before the insertion;  *)
(* for a = b it returns the single equality (nothing for the empty text).  *)
(* diff_cleanupSemantic and diff_cleanupEfficiency turn a script into some *)
(* script of the same two texts.                                           *)
(***************************************************************************)
DELETE == -1

EQUAL == 0

INSERT == 1

DiffOp(op, text) == [op |-> op, text |-> text]

\* Concatenation of the fragments whose op is not `skip`.
TextWithout(diffs, skip) ==
    Flatten([i \in 1..Len(diffs) |->
        IF diffs[i].op = skip THEN <<>> ELSE diffs[i].text])

\* diff_text1: the source text a script rebuilds.
DiffText1(diffs) == TextWithout(diffs, INSERT)

\* diff_text2: the destination text a script rebuilds.
DiffText2(diffs) == TextWithout(diffs, DELETE)

CommonPrefixLen(a, b) ==
    LET n == Min(Len(a), Len(b))
        agree == {k \in 0..n : SubSeq(a, 1, k) = SubSeq(b, 1, k)}
    IN  CHOOSE k \in agree : \A j \in agree : j <= k

RECURSIVE EditScripts(_, _, _)
\* The alternating scripts from a to b.  mode "start": any first fragment;
\* "equal": the previous fragment was an equality, a change block follows;
\* "change": the previous fragment was a change block, an equality follows.
EditScripts(a, b, mode) ==
    IF a = <<>> /\ b = <<>> THEN {<<>>}
    ELSE
        (IF mode = "equal" THEN {}
         ELSE UNION {
                {<<DiffOp(EQUAL, SubSeq(a, 1, k))>> \o rest :
                    rest \in EditScripts(SubstringFrom(a, k), SubstringFrom(b, k), "equal")}
                : k \in 1..CommonPrefixLen(a, b)})
        \cup
        (IF mode = "change" THEN {}
         ELSE UNION {
                {(IF ij[1] = 0 THEN <<>> ELSE <<DiffOp(DELETE, SubSeq(a, 1, ij[1]))>>)
                 \o (IF ij[2] = 0 THEN <<>> ELSE <<DiffOp(INSERT, SubSeq(b, 1, ij[2]))>>)
                 \o rest :
                    rest \in EditScripts(SubstringFrom(a, ij[1]), SubstringFrom(b, ij[2]),
                                         "change")}
                : ij \in ((0..Len(a)) \X (0..Len(b))) \ {<<0, 0>>}})

\* dmp.diff_main(text1, text2): the scripts the call may return.
diff_main(text1, text2) ==
    IF text1 = text2
    THEN (IF text1 = <<>> THEN {<<>>} ELSE {<<DiffOp(EQUAL, text1)>>})
    ELSE EditScripts(text1, text2, "start")

\* dmp.diff_cleanupSemantic(diffs): the scripts the call may leave in place.
diff_cleanupSemantic(diffs) == diff_main(DiffText1(diffs), DiffText2(diffs))

\* dmp.diff_cleanupEfficiency(diffs): the scripts the call may leave in place.
diff_cleanupEfficiency(diffs) == diff_main(DiffText1(diffs), DiffText2(diffs))

\* text.replace(/ /g, "\u00A0")
spaceSensitiveText(text) ==
    [i \in 1..Len(text) |-> IF text[i] = SPACE THEN NBSP ELSE text[i]]

\* text.replace(/\u00A0/g, " ")
RestoreSpaces(text) ==
    [i \in 1..Len(text) |-> IF text[i] = NBSP THEN SPACE ELSE text[i]]

\* diffs.map(([op, text]) => [op, text.replace(/\u00A0/g, " ")])
normalizedDiffs(diffs) ==
    [i \in 1..Len(diffs) |-> DiffOp(diffs[i].op, RestoreSpaces(diffs[i].text))]

\* The class of a character under wordPattern: "p" a punctuation character,
\* "s" whitespace (matched by neither alternative), "w" anything else.
CharClass(c) ==
    IF IsPunctuation(c) THEN "p" ELSE IF IsWhitespace(c) THEN "s" ELSE "w"

\* Length of the longest run of class cls at the start of text.
RunLength(text, cls) ==
    LET runs == {k \in 0..Len(text) : \A i \in 1..k : CharClass(text[i]) = cls}
    IN  CHOOSE k \in runs : \A j \in runs : j <= k

\* A tokeniser that cuts nothing.
WordTokens_Whole(text) == <<text>>

RECURSIVE WordTokens(_)
\* The fragments the regex loop of forceDiffByWords cuts a text into: each
\* match of wordPattern (a run of word characters, or one punctuation
\* character), the text between two matches, and the text after the last.
WordTokens(text) ==
    IF text = <<>> THEN <<>>
    ELSE LET cls == CharClass(text[1])
             n == IF cls = "p" THEN 1 ELSE RunLength(text, cls)
         IN  <<SubSeq(text, 1, n)>> \o WordTokens(SubstringFrom(text, n))

\* forceDiffByWords
forceDiffByWords(diffs) ==
    Flatten([i \in 1..Len(diffs) |->
        IF diffs[i].op = EQUAL \/ IsWhitespaceOnly(diffs[i].text)
        THEN <<diffs[i]>>
        ELSE LET words == WordTokens(diffs[i].text)
             IN  [k \in 1..Len(words) |-> DiffOp(diffs[i].op, words[k])]])

\* One script of `scripts` for each pair of texts they rebuild.  What a cleanup
\* may leave depends on the two texts of its argument only, so one script
\* stands for all those of the same texts.
OnePerTexts(scripts) ==
    LET texts(d) == <<DiffText1(d), DiffText2(d)>>
    IN  {CHOOSE d \in scripts : texts(d) = t : t \in {texts(d) : d \in scripts}}

\* The scripts performDiff may hold when it calls forceDiffByWords.
cleanedDiffs(oldText, newText) ==
    LET main == diff_main(spaceSensitiveText(oldText), spaceSensitiveText(newText))
        normalized == {normalizedDiffs(d) : d \in main}
        semantic == UNION {diff_cleanupSemantic(d) : d \in OnePerTexts(normalized)}
    IN  UNION {diff_cleanupEfficiency(d) : d \in OnePerTexts(semantic)}

\* performDiff: every result the function may return for (oldText, newText).
performDiff(oldText, newText) ==
    {forceDiffByWords(d) : d \in cleanedDiffs(oldText, newText)}

(***************************************************************************)
(* Highlight applicator of the aligner (markTextDifferences)               *)
(*                                                                         *)
(* The source refers to text nodes by identity.  Here a text node is named *)
(* by its childNodes path in the container at the time the list is built,  *)
(* and the replacements are applied from the last node to the first, which *)
(* leaves the paths of the nodes still to replace unchanged.               *)
(***************************************************************************)
RECURSIVE TextNodesWithPositions(_, _, _)
\* extractTextNodesWithPositions.processNode applied to `node`, found at
\* `path`, with `position` characters before it.
TextNodesWithPositions(node, path, position) ==
    IF IsText(node)
    THEN <<[node |-> path, start |-> position, end |-> position + Len(node.text)]>>
    ELSE LET before(i) == Len(Flatten([k \in 1..(i - 1) |-> textContent(node.kids[k])]))
         IN  Flatten([i \in 1..Len(node.kids) |->
                TextNodesWithPositions(node.kids[i], Append(path, i - 1),
                                       position + before(i))])

\* extractTextNodesWithPositions(element), element being the node at
\* childNodes path `element` of the container.
extractTextNodesWithPositions(container, element) ==
    TextNodesWithPositions(findNodeByPath(container, element), element, 0)

\* splitIntoWords
splitIntoWords(text) ==
    IF text = <<>> THEN <<>>
    ELSE IF IsWhitespaceOnly(text) THEN <<text>>
    ELSE WordTokens(text)

RECURSIVE processContentWithWordsFrom(_, _)
\* The loop of processContentWithWords over diffs, `position` characters
\* having been emitted.
processContentWithWordsFrom(diffs, position) ==
    IF diffs = <<>> THEN <<>>
    ELSE LET words == splitIntoWords(Head(diffs).text)
             startOf(k) == position + Len(Flatten(SubSeq(words, 1, k - 1)))
         IN  [k \in 1..Len(words) |->
                [start |-> startOf(k), end |-> startOf(k) + Len(words[k]),
                 text |-> words[k], isChanged |-> Head(diffs).op # EQUAL]]
             \o processContentWithWordsFrom(Tail(diffs),
                                            position + Len(Head(diffs).text))

\* processContentWithWords (its content argument is not used by the source).
processContentWithWords(content, diffs) == processContentWithWordsFrom(diffs, 0)

RECURSIVE groupWords(_, _)
\* The grouping loop of applyWordHighlighting: words is what is left to
\* read, groups what was built so far, its last element being currentGroup.
groupWords(words, groups) ==
    IF words = <<>> THEN groups
    ELSE LET word == Head(words)
             n == Len(groups)
         IN  IF n > 0 /\ groups[n].isChanged = word.isChanged
             THEN groupWords(Tail(words), [groups EXCEPT ![n].end = word.end])
             ELSE groupWords(Tail(words),
                    Append(groups, [start |-> word.start, end |-> word.end,
                                    isChanged |-> word.isChanged]))

\* `diff-${changeType}`, the class of an inline marker.
DiffClass(changeType) == IF changeType = "removed" THEN "diff-removed" ELSE "diff-added"

\* `diff-node-${changeType}`, the class of a whole-node marker.
DiffNodeClass(changeType) ==
    IF changeType = "removed" THEN "diff-node-removed" ELSE "diff-node-added"

\* The span applyWordHighlighting creates for `highlighted` under parentNode:
\* the change class, then the parent's inline style and classes.
HighlightSpan(parentNode, highlighted, changeType) ==
    LET inlineStyle == GetAttribute(parentNode, "style")
        classNames == GetAttribute(parentNode, "class")
        base == Element("span", <<Attr("class", <<DiffClass(changeType)>>)>>,
                        <<TextNode(highlighted)>>)
        styled == IF inlineStyle # <<>> THEN SetAttribute(base, "style", inlineStyle)
                  ELSE base
        AddAll[i \in 0..Len(classNames)] ==
            IF i = 0 THEN styled ELSE ClassListAdd(AddAll[i - 1], classNames[i])
    IN  AddAll[Len(classNames)]

\* Lines 588-590 with `after` taken one character late.
HighlightFragment_AfterLate(parentNode, content, localStart, localEnd, changeType) ==
    LET before == Substring(content, 0, localStart)
        highlighted == Substring(content, localStart, localEnd)
        after == SubstringFrom(content, localEnd + 1)
    IN  (IF before # <<>> THEN <<TextNode(before)>> ELSE <<>>)
        \o <<HighlightSpan(parentNode, highlighted, changeType)>>
        \o (IF after # <<>> THEN <<TextNode(after)>> ELSE <<>>)

\* The fragment with `before` wrapped in a marker of its own: a second split
\* of the text node.
HighlightFragment_BothParts(parentNode, content, localStart, localEnd, changeType) ==
    LET before == Substring(content, 0, localStart)
        highlighted == Substring(content, localStart, localEnd)
        after == SubstringFrom(content, localEnd)
    IN  (IF before # <<>> THEN <<HighlightSpan(parentNode, before, changeType)>> ELSE <<>>)
        \o <<HighlightSpan(parentNode, highlighted, changeType)>>
        \o (IF after # <<>> THEN <<TextNode(after)>> ELSE <<>>)

\* The fragment that replaces a text node with content `content` whose
\* characters [localStart, localEnd) are highlighted.
HighlightFragment(parentNode, content, localStart, localEnd, changeType) ==
    LET before == Substring(content, 0, localStart)
        highlighted == Substring(content, localStart, localEnd)
        after == SubstringFrom(content, localEnd)
    IN  (IF before # <<>> THEN <<TextNode(before)>> ELSE <<>>)
        \o <<HighlightSpan(parentNode, highlighted, changeType)>>
        \o (IF after # <<>> THEN <<TextNode(after)>> ELSE <<>>)

\* affectedNodes of one group: the text nodes not yet processed whose range
\* meets the group, with the local range.
AffectedNodes(container, textNodes, processedNodes, group) ==
    LET hit(t) == /\ t.node \notin processedNodes
                  /\ ~(t.end <= group.start \/ t.start >= group.end)
                  /\ Max(0, group.start - t.start)
                        < Min(Len(findNodeByPath(container, t.node).text),
                              group.end - t.start)
        hits == SelectSeq(textNodes, hit)
    IN  [i \in 1..Len(hits) |->
            [node |-> hits[i].node,
             localStart |-> Max(0, group.start - hits[i].start),
             localEnd |-> Min(Len(findNodeByPath(container, hits[i].node).text),
                              group.end - hits[i].start)]]

RECURSIVE HighlightGroups_NoSkip(_, _, _, _, _)
\* The loop without the `continue` of line 586.
HighlightGroups_NoSkip(container, textNodes, groups, processedNodes, changeType) ==
    IF groups = <<>> THEN <<>>
    ELSE IF ~Head(groups).isChanged
    THEN HighlightGroups_NoSkip(container, textNodes, Tail(groups), processedNodes,
                                changeType)
    ELSE LET affected == AffectedNodes(container, textNodes, processedNodes, Head(groups))
             content(a) == findNodeByPath(container, a.node).text
             made == [i \in 1..Len(affected) |->
                        [node |-> affected[i].node,
                         fragment |-> HighlightFragment(
                            findNodeByPath(container,
                                SubSeq(affected[i].node, 1, Len(affected[i].node) - 1)),
                            content(affected[i]), affected[i].localStart,
                            affected[i].localEnd, changeType)]]
         IN  made \o HighlightGroups_NoSkip(container, textNodes, Tail(groups),
                        processedNodes \cup {affected[i].node : i \in 1..Len(affected)},
                        changeType)

RECURSIVE HighlightGroups(_, _, _, _, _)
\* The loop of applyWordHighlighting over the groups: the replacements made,
\* [node, fragment], in the order they are made.
HighlightGroups(container, textNodes, groups, processedNodes, changeType) ==
    IF groups = <<>> THEN <<>>
    ELSE IF ~Head(groups).isChanged
    THEN HighlightGroups(container, textNodes, Tail(groups), processedNodes, changeType)
    ELSE LET affected == AffectedNodes(container, textNodes, processedNodes, Head(groups))
             content(a) == findNodeByPath(container, a.node).text
             wrapped == SelectSeq(affected, LAMBDA a :
                            HasNonWhitespace(Substring(content(a), a.localStart, a.localEnd)))
             made == [i \in 1..Len(wrapped) |->
                        [node |-> wrapped[i].node,
                         fragment |-> HighlightFragment(
                            findNodeByPath(container,
                                SubSeq(wrapped[i].node, 1, Len(wrapped[i].node) - 1)),
                            content(wrapped[i]), wrapped[i].localStart,
                            wrapped[i].localEnd, changeType)]]
         IN  made \o HighlightGroups(container, textNodes, Tail(groups),
                        processedNodes \cup {wrapped[i].node : i \in 1..Len(wrapped)},
                        changeType)

\* Document order of childNodes paths.
RECURSIVE PathBefore(_, _)
PathBefore(p, q) ==
    IF p = <<>> THEN q # <<>>
    ELSE IF q = <<>> THEN FALSE
    ELSE IF Head(p) # Head(q) THEN Head(p) < Head(q)
    ELSE PathBefore(Tail(p), Tail(q))

RECURSIVE ApplyReplacements(_, _)
\* node.parentNode.replaceChild(fragment, node) for every replacement made.
\* Each text node is replaced at most once and none lies inside another, so
\* the replacements commute; they are applied last node first.
ApplyReplacements(container, made) ==
    IF made = {} THEN container
    ELSE LET last == CHOOSE m \in made :
                        \A o \in made : o = m \/ PathBefore(o.node, m.node)
         IN  ApplyReplacements(ReplaceAt(container, last.node, last.fragment),
                               made \ {last})

\* applyWordHighlighting on the container that holds the text nodes.
applyWordHighlighting(container, textNodes, words, changeType) ==
    LET made == HighlightGroups(container, textNodes, groupWords(words, <<>>), {},
                                changeType)
    IN  ApplyReplacements(container, Range(made))

\* markTextDifferences, one side: the container after the element at
\* `element` was highlighted with the fragments of diffs other than dropOp.
markTextDifferencesSide(container, element, diffs, dropOp, changeType) ==
    LET textNodes == extractTextNodesWithPositions(container, element)
        processedContent ==
            processContentWithWords(textContent(findNodeByPath(container, element)),
                                    SelectSeq(diffs, LAMBDA d : d.op # dropOp))
    IN  applyWordHighlighting(container, textNodes, processedContent, changeType)

(***************************************************************************)
(* Whole-node marking and the whitespace highlighter                       *)
(***************************************************************************)
RECURSIVE UpdateAt(_, _, _)
\* The tree root with the node at childNodes path `path` replaced by `node`.
UpdateAt(root, path, node) ==
    IF path = <<>> THEN node
    ELSE [root EXCEPT !.kids[Head(path) + 1] = UpdateAt(@, Tail(path), node)]

\* markNodeAsChanged on the element at `element`.  backgroundWasChanged is
\* what window.getComputedStyle reports, which the style sheets in force
\* decide.
markNodeAsChanged(container, element, changeType, backgroundWasChanged) ==
    LET node == findNodeByPath(container, element)
        originalStyle == GetAttribute(node, "style")
        classed == ClassListAdd(node, DiffNodeClass(changeType))
        marked == IF backgroundWasChanged /\ originalStyle # <<>>
                  THEN SetAttribute(classed, "data-original-style", originalStyle)
                  ELSE classed
    IN  UpdateAt(container, element, marked)

\* Length of the run of literal spaces at the start of text.
SpaceRun(text) ==
    LET runs == {k \in 0..Len(text) : \A i \in 1..k : text[i] = SPACE}
    IN  CHOOSE k \in runs : \A j \in runs : j <= k

\* The two pieces of markup spacesSpan puts around a run (line 837).
SpacesSpanOpen == "<span class=\"diff-whitespace\" style=\"white-space: pre-wrap;\">"

SpacesSpanClose == "</span>"

\* The attributes SpacesSpanOpen spells.
SpacesSpanAttrs ==
    <<Attr("class", <<"diff-whitespace">>), Attr("style", <<"white-space:", "pre-wrap;">>)>>

RECURSIVE NewContent(_)
\* newContent of lines 829-846: the characters of the text node as they
\* are, each run of two or more spaces between SpacesSpanOpen and
\* SpacesSpanClose.
NewContent(text) ==
    IF text = <<>> THEN <<>>
    ELSE LET n == SpaceRun(text)
         IN  IF n >= 2
             THEN <<SpacesSpanOpen>> \o SubSeq(text, 1, n) \o <<SpacesSpanClose>>
                  \o NewContent(SubstringFrom(text, n))
             ELSE <<Head(text)>> \o NewContent(Tail(text))

(***************************************************************************)
(* tempSpan.innerHTML = newContent (line 852): the HTML fragment parser on *)
(* the items of newContent.  The characters of the model are letters, the  *)
(* space, "<" and "&"; no character reference and no end of a comment or   *)
(* of a raw-text element can be spelled with them.  A token is             *)
(*   [type |-> "char", c], [type |-> "start", tag, attrs] or               *)
(*   [type |-> "end", tag].                                                *)
(***************************************************************************)
IsAsciiLetter(c) == c \in {"a", "b"}

\* A tag or attribute name read from the input, as a string.
NameString(chars) == IF Len(chars) = 1 THEN chars[1] ELSE ToString(chars)

\* The attribute list with the attribute named by `chars` added, empty
\* valued; a name already present is dropped, and so is no name at all.
WithAttrName(attrs, chars) ==
    IF chars = <<>> \/ \E i \in 1..Len(attrs) : attrs[i].name = NameString(chars)
    THEN attrs
    ELSE Append(attrs, Attr(NameString(chars), <<>>))

\* The attribute list with the attributes of SpacesSpanOpen added, first
\* occurrence of a name winning.
WithSpanAttrs(attrs) ==
    attrs \o SelectSeq(SpacesSpanAttrs,
                       LAMBDA a : \A i \in 1..Len(attrs) : attrs[i].name # a.name)

RECURSIVE Tokenize(_)
RECURSIVE ScanTag(_, _, _, _, _)
\* The tokenizer inside a start tag: name is the tag name read so far, attrs
\* the attributes read, cur the attribute name being read, state "name" or
\* "attrs".  The end of the input inside a tag drops the tag.
ScanTag(items, name, attrs, cur, state) ==
    IF items = <<>> THEN <<>>
    ELSE LET h == Head(items)
             rest == Tail(items)
         IN  IF state = "name"
             THEN IF h = SPACE THEN ScanTag(rest, name, attrs, <<>>, "attrs")
                  ELSE IF h = SpacesSpanOpen
                  THEN <<[type |-> "start",
                          tag |-> NameString(name \o <<"<", "s", "p", "a", "n">>),
                          attrs |-> WithSpanAttrs(attrs)]>> \o Tokenize(rest)
                  ELSE IF h = SpacesSpanClose
                  THEN <<[type |-> "start", tag |-> NameString(Append(name, "<")),
                          attrs |-> WithAttrName(attrs, <<"s", "p", "a", "n">>)]>>
                       \o Tokenize(rest)
                  ELSE ScanTag(rest, Append(name, h), attrs, cur, state)
             ELSE IF h = SPACE
                  THEN ScanTag(rest, name, WithAttrName(attrs, cur), <<>>, "attrs")
                  ELSE IF h = SpacesSpanOpen
                  THEN <<[type |-> "start", tag |-> NameString(name),
                          attrs |-> WithSpanAttrs(
                              WithAttrName(attrs, cur \o <<"<", "s", "p", "a", "n">>))]>>
                       \o Tokenize(rest)
                  ELSE IF h = SpacesSpanClose
                  THEN <<[type |-> "start", tag |-> NameString(name),
                          attrs |-> WithAttrName(WithAttrName(attrs, Append(cur, "<")),
                                                 <<"s", "p", "a", "n">>)]>>
                       \o Tokenize(rest)
                  ELSE ScanTag(rest, name, attrs, Append(cur, h), state)

\* The tokenizer in the data state: "<" before a letter opens a tag, any
\* other "<" and every "&" are characters.
Tokenize(items) ==
    IF items = <<>> THEN <<>>
    ELSE LET h == Head(items)
             rest == Tail(items)
         IN  IF h = SpacesSpanOpen
             THEN <<[type |-> "start", tag |-> "span", attrs |-> SpacesSpanAttrs]>>
                  \o Tokenize(rest)
             ELSE IF h = SpacesSpanClose
             THEN <<[type |-> "end", tag |-> "span", attrs |-> <<>>]>> \o Tokenize(rest)
             ELSE IF h = "<" /\ rest # <<>> /\ IsAsciiLetter(Head(rest))
             THEN ScanTag(Tail(rest), <<Head(rest)>>, <<>>, <<>>, "name")
             ELSE <<[type |-> "char", tag |-> h, attrs |-> <<>>]>> \o Tokenize(rest)

\* The child list with the character c inserted at its end.
AppendCharacter(kids, c) ==
    IF kids # <<>> /\ IsText(kids[Len(kids)])
    THEN [kids EXCEPT ![Len(kids)].text = Append(@, c)]
    ELSE Append(kids, TextNode(<<c>>))

RECURSIVE PopTo(_, _)
\* The stack of open elements popped down to depth n: each popped element
\* is the last child of the element below it.
PopTo(stack, n) ==
    IF Len(stack) <= n THEN stack
    ELSE LET top == stack[Len(stack)]
             below == SubSeq(stack, 1, Len(stack) - 1)
         IN  PopTo([below EXCEPT ![Len(below)].kids = Append(@, top)], n)

RECURSIVE TreeBuild(_, _)
\* The tree builder: stack[1] is the element whose innerHTML is set.  An end
\* tag closes the nearest open element of its name and is ignored when
\* there is none.
TreeBuild(tokens, stack) ==
    IF tokens = <<>> THEN PopTo(stack, 1)[1]
    ELSE LET t == Head(tokens)
             open == {i \in 2..Len(stack) : stack[i].tag = t.tag}
         IN  IF t.type = "char"
             THEN TreeBuild(Tail(tokens),
                            [stack EXCEPT ![Len(stack)].kids = AppendCharacter(@, t.tag)])
             ELSE IF t.type = "start"
             THEN TreeBuild(Tail(tokens), Append(stack, Element(t.tag, t.attrs, <<>>)))
             ELSE IF open = {} THEN TreeBuild(Tail(tokens), stack)
             ELSE TreeBuild(Tail(tokens),
                            PopTo(stack, (CHOOSE i \in open : \A k \in open : k <= i) - 1))

\* element.innerHTML = the items of markup.
ParseInnerHtml(element, items) ==
    TreeBuild(Tokenize(items), <<[element EXCEPT !.kids = <<>>]>>)

\* multipleSpacesRegex matches somewhere in content.
HasMultipleSpaces(content) ==
    \E i \in 1..(Len(content) - 1) : content[i] = SPACE /\ content[i + 1] = SPACE

RECURSIVE markWhitespaceChanges(_)
\* markWhitespaceChanges: every text node below the container that holds a
\* run of two or more spaces is replaced by a span holding the marked-up
\* content; the nodes were collected before the first replacement.
markWhitespaceChanges(node) ==
    IF IsText(node)
    THEN (IF HasMultipleSpaces(node.text)
          THEN ParseInnerHtml(Element("span", <<>>, <<>>), NewContent(node.text))
          ELSE node)
    ELSE [node EXCEPT !.kids = [i \in 1..Len(@) |-> markWhitespaceChanges(@[i])]]

(***************************************************************************)
(* Highlight applicator of the whole-container text diff                   *)
(***************************************************************************)
RECURSIVE MergeText(_)
\* A child list as the HTML parser rebuilds it from its serialization:
\* adjacent text nodes are one node, and no text node is empty.
MergeText(kids) ==
    IF kids = <<>> THEN <<>>
    ELSE LET first == Head(kids)
             rest == MergeText(Tail(kids))
         IN  IF IsText(first) /\ first.text = <<>> THEN rest
             ELSE IF IsText(first) /\ rest # <<>> /\ IsText(Head(rest))
             THEN <<TextNode(first.text \o Head(rest).text)>> \o Tail(rest)
             ELSE <<first>> \o rest

RECURSIVE InnerHtmlRoundTrip(_)
\* The tree that container.innerHTML = other.innerHTML leaves: other's tree
\* serialized and parsed again.
InnerHtmlRoundTrip(node) ==
    IF IsText(node) THEN node
    ELSE [node EXCEPT !.kids =
            MergeText([i \in 1..Len(@) |-> InnerHtmlRoundTrip(@[i])])]

\* oldChanges (op = DELETE) or newChanges (op = INSERT) of highlightChanges:
\* the ranges of the fragments of `op`, positions counted over the fragments
\* that are not of the opposite op.
RECURSIVE ChangesFrom(_, _, _, _)
ChangesFrom(diffs, op, type, pos) ==
    IF diffs = <<>> THEN <<>>
    ELSE LET d == Head(diffs)
         IN  IF d.op = op
             THEN <<[start |-> pos, end |-> pos + Len(d.text), text |-> d.text,
                     type |-> type]>>
                  \o ChangesFrom(Tail(diffs), op, type, pos + Len(d.text))
             ELSE IF d.op = EQUAL
             THEN ChangesFrom(Tail(diffs), op, type, pos + Len(d.text))
             ELSE ChangesFrom(Tail(diffs), op, type, pos)

RECURSIVE SortDescending(_)
\* [...changes].sort((a, b) => b.start - a.start): stable, by descending start.
SortDescending(changes) ==
    IF changes = <<>> THEN <<>>
    ELSE LET top == CHOOSE i \in 1..Len(changes) :
                        /\ \A j \in 1..Len(changes) : changes[j].start <= changes[i].start
                        /\ \A j \in 1..(i - 1) : changes[j].start < changes[i].start
         IN  <<changes[top]>>
             \o SortDescending(SubSeq(changes, 1, top - 1)
                               \o SubSeq(changes, top + 1, Len(changes)))

\* The nodes applyTextNodeChanges puts in place of a text node: before,
\* the span around the middle, after.
SplitTextNode(originalText, localStart, localEnd, type) ==
    LET before == Substring(originalText, 0, localStart)
        middle == Substring(originalText, localStart, localEnd)
        after == SubstringFrom(originalText, localEnd)
    IN  (IF before # <<>> THEN <<TextNode(before)>> ELSE <<>>)
        \o <<Element("span", <<Attr("class", <<DiffClass(type)>>)>>,
                     IF middle = <<>> THEN <<>> ELSE <<TextNode(middle)>>)>>
        \o (IF after # <<>> THEN <<TextNode(after)>> ELSE <<>>)

RECURSIVE ApplyAffected(_, _, _)
\* The inner loop of applyTextNodeChanges over the affected nodes of a change.
ApplyAffected(containerClone, affected, type) ==
    IF affected = <<>> THEN containerClone
    ELSE LET a == Head(affected)
             targetNode == findNodeByPath(containerClone, a.path)
         IN  IF ~IsText(targetNode)
             THEN ApplyAffected(containerClone, Tail(affected), type)
             ELSE ApplyAffected(
                    ReplaceAt(containerClone, a.path,
                              SplitTextNode(targetNode.text, a.localStart, a.localEnd, type)),
                    Tail(affected), type)

RECURSIVE ApplyChanges(_, _, _)
\* The outer loop of applyTextNodeChanges over the sorted changes.
ApplyChanges(containerClone, textNodes, sortedChanges) ==
    IF sortedChanges = <<>> THEN containerClone
    ELSE LET change == Head(sortedChanges)
             hit(t) == /\ ~(t.endPos <= change.start \/ t.startPos >= change.end)
                       /\ Max(0, change.start - t.startPos)
                            < Min(Len(t.text), change.end - t.startPos)
             hits == SelectSeq(textNodes, hit)
             affected == [i \in 1..Len(hits) |->
                            [path |-> hits[i].path,
                             localStart |-> Max(0, change.start - hits[i].startPos),
                             localEnd |-> Min(Len(hits[i].text),
                                              change.end - hits[i].startPos)]]
         IN  ApplyChanges(ApplyAffected(containerClone, affected, change.type),
                          textNodes, Tail(sortedChanges))

\* applyTextNodeChanges: the tree whose serialization the function returns.
applyTextNodeChanges(container, textNodes, changes) ==
    IF changes = <<>> THEN container
    ELSE ApplyChanges(container, textNodes, SortDescending(changes))

(***************************************************************************)
(* Node aligner (deepCompareAndMarkChanges)                                *)
(*                                                                         *)
(* The locals of one call are the record                                   *)
(*   [sortedOldNodes, sortedNewNodes, nodeMapping, processedOldNodes,      *)
(*    processedNewNodes, highlightedOld, highlightedNew]                   *)
(* nodeMapping is the Map oldPath -> newPath as a function; highlightedOld *)
(* and highlightedNew are the paths whose record has highlighted = true.   *)
(***************************************************************************)
NoLocals ==
    [sortedOldNodes |-> <<>>, sortedNewNodes |-> <<>>, nodeMapping |-> <<>>,
     processedOldNodes |-> {}, processedNewNodes |-> {},
     highlightedOld |-> {}, highlightedNew |-> {}]

\* Map.set(key, value)
MapSet(map, key, value) ==
    [k \in DOMAIN map \cup {key} |-> IF k = key THEN value ELSE map[k]]

\* Lines 135-189: the two node maps, sorted, and the empty collections.
AlignerLocals(oldContainer, newContainer) ==
    [NoLocals EXCEPT
        !.sortedOldNodes = sortNodesByDepth(createNodeMap(oldContainer)),
        !.sortedNewNodes = sortNodesByDepth(createNodeMap(newContainer))]

\* The inner loop of the exact pass taking the last fitting new node.
ExactCandidate_Last(l, oldNode) ==
    LET fits(j) == /\ ~hasHighlightedAncestor(l.highlightedNew, l.sortedNewNodes[j].path)
                   /\ l.sortedNewNodes[j].path \notin l.processedNewNodes
                   /\ oldNode.signature = l.sortedNewNodes[j].signature
                   /\ oldNode.textContent = l.sortedNewNodes[j].textContent
        found == {j \in 1..Len(l.sortedNewNodes) : fits(j)}
    IN  IF found = {} THEN 0 ELSE CHOOSE j \in found : \A k \in found : k <= j

\* The inner loop of the exact pass fitting a new node of the same path only.
ExactCandidate_SamePath(l, oldNode) ==
    LET fits(j) == /\ ~hasHighlightedAncestor(l.highlightedNew, l.sortedNewNodes[j].path)
                   /\ l.sortedNewNodes[j].path \notin l.processedNewNodes
                   /\ oldNode.path = l.sortedNewNodes[j].path
                   /\ oldNode.signature = l.sortedNewNodes[j].signature
                   /\ oldNode.textContent = l.sortedNewNodes[j].textContent
        found == {j \in 1..Len(l.sortedNewNodes) : fits(j)}
    IN  IF found = {} THEN 0 ELSE CHOOSE j \in found : \A k \in found : j <= k

\* The first new node, in sorted order, that the inner loop of the exact
\* pass pairs with oldNode; 0 when the loop ends without a pair.
ExactCandidate(l, oldNode) ==
    LET fits(j) == /\ ~hasHighlightedAncestor(l.highlightedNew, l.sortedNewNodes[j].path)
                   /\ l.sortedNewNodes[j].path \notin l.processedNewNodes
                   /\ oldNode.signature = l.sortedNewNodes[j].signature
                   /\ oldNode.textContent = l.sortedNewNodes[j].textContent
        found == {j \in 1..Len(l.sortedNewNodes) : fits(j)}
    IN  IF found = {} THEN 0 ELSE CHOOSE j \in found : \A k \in found : j <= k

RECURSIVE ExactPassFrom(_, _)
\* Step 2.1 from the i-th old node on.
ExactPassFrom(l, i) ==
    IF i > Len(l.sortedOldNodes) THEN l
    ELSE LET oldNode == l.sortedOldNodes[i]
         IN  IF hasHighlightedAncestor(l.highlightedOld, oldNode.path)
             THEN ExactPassFrom([l EXCEPT !.processedOldNodes = @ \cup {oldNode.path}],
                                i + 1)
             ELSE LET j == ExactCandidate(l, oldNode)
                  IN  IF j = 0 THEN ExactPassFrom(l, i + 1)
                      ELSE ExactPassFrom(
                            [l EXCEPT
                                !.nodeMapping = MapSet(@, oldNode.path,
                                                       l.sortedNewNodes[j].path),
                                !.processedOldNodes = @ \cup {oldNode.path},
                                !.processedNewNodes = @ \cup {l.sortedNewNodes[j].path}],
                            i + 1)

\* The inner loop of the structural pass without processedNewNodes.has(newPath).
StructuralCandidate_AnyNew(l, oldNode) ==
    LET fits(j) == /\ ~hasHighlightedAncestor(l.highlightedNew, l.sortedNewNodes[j].path)
                   /\ oldNode.signature = l.sortedNewNodes[j].signature
        found == {j \in 1..Len(l.sortedNewNodes) : fits(j)}
    IN  IF found = {} THEN 0 ELSE CHOOSE j \in found : \A k \in found : j <= k

\* The first new node that the inner loop of the structural pass pairs with
\* oldNode; 0 when there is none.
StructuralCandidate(l, oldNode) ==
    LET fits(j) == /\ l.sortedNewNodes[j].path \notin l.processedNewNodes
                   /\ ~hasHighlightedAncestor(l.highlightedNew, l.sortedNewNodes[j].path)
                   /\ oldNode.signature = l.sortedNewNodes[j].signature
        found == {j \in 1..Len(l.sortedNewNodes) : fits(j)}
    IN  IF found = {} THEN 0 ELSE CHOOSE j \in found : \A k \in found : j <= k

\* The test of lines 224-227 and 267-270 without processedOldNodes.has(oldPath).
SkippedOld_NoProcessed(l, i) ==
    hasHighlightedAncestor(l.highlightedOld, l.sortedOldNodes[i].path)

\* The old node of index i is skipped by the outer loop of steps 2.2 and 2.3.
SkippedOld(l, i) ==
    \/ l.sortedOldNodes[i].path \in l.processedOldNodes
    \/ hasHighlightedAncestor(l.highlightedOld, l.sortedOldNodes[i].path)

SkippedNew(l, j) ==
    \/ l.sortedNewNodes[j].path \in l.processedNewNodes
    \/ hasHighlightedAncestor(l.highlightedNew, l.sortedNewNodes[j].path)

\* The index of the first old node from i on that step 2.2 pairs; past the
\* end of the list when the loop ends without another pair.
NextStructural(l, i) ==
    LET pairs == {k \in i..Len(l.sortedOldNodes) :
                    ~SkippedOld(l, k) /\ StructuralCandidate(l, l.sortedOldNodes[k]) # 0}
    IN  IF pairs = {} THEN Len(l.sortedOldNodes) + 1
        ELSE CHOOSE k \in pairs : \A m \in pairs : k <= m

\* The test of lines 249-251 without text.trim().length > 0.
hasSignificantChanges_AnyChange(diffs) ==
    \E i \in 1..Len(diffs) : diffs[i].op # EQUAL

\* hasSignificantChanges
hasSignificantChanges(diffs) ==
    \E i \in 1..Len(diffs) : diffs[i].op # EQUAL /\ HasNonWhitespace(diffs[i].text)

\* The loops of lines 277-281 and 298-302 adding nothing.
DescendantPaths_None(sorted, path) == {}

\* The paths of a sorted node list that start with path followed by "/".
DescendantPaths(sorted, path) ==
    {sorted[k].path : k \in {m \in 1..Len(sorted) :
        Len(sorted[m].path) > Len(path) /\ IsPrefix(path, sorted[m].path)}}

RECURSIVE ResidualOldFrom(_, _, _, _)
\* Step 2.3, old side, from the i-th old node on: <<locals, container>>.
ResidualOldFrom(l, container, i, backgroundWasChanged) ==
    IF i > Len(l.sortedOldNodes) THEN <<l, container>>
    ELSE IF SkippedOld(l, i)
    THEN ResidualOldFrom(l, container, i + 1, backgroundWasChanged)
    ELSE LET oldNode == l.sortedOldNodes[i]
         IN  ResidualOldFrom(
                [l EXCEPT !.highlightedOld = @ \cup {oldNode.path},
                          !.processedOldNodes =
                                @ \cup DescendantPaths(l.sortedOldNodes, oldNode.path)],
                markNodeAsChanged(container, oldNode.element, "removed",
                                  backgroundWasChanged),
                i + 1, backgroundWasChanged)

RECURSIVE ResidualNewFrom(_, _, _, _)
\* Step 2.3, new side, from the j-th new node on: <<locals, container>>.
ResidualNewFrom(l, container, j, backgroundWasChanged) ==
    IF j > Len(l.sortedNewNodes) THEN <<l, container>>
    ELSE IF SkippedNew(l, j)
    THEN ResidualNewFrom(l, container, j + 1, backgroundWasChanged)
    ELSE LET newNode == l.sortedNewNodes[j]
         IN  ResidualNewFrom(
                [l EXCEPT !.highlightedNew = @ \cup {newNode.path},
                          !.processedNewNodes =
                                @ \cup DescendantPaths(l.sortedNewNodes, newNode.path)],
                markNodeAsChanged(container, newNode.element, "added",
                                  backgroundWasChanged),
                j + 1, backgroundWasChanged)

(***************************************************************************)
(* Inputs                                                                  *)
(*                                                                         *)
(* An HTML string is [dom, spelling]: the child list its parse yields, and *)
(* which of the byte strings with that parse it is.  Two strings are equal *)
(* when both fields are.                                                   *)
(***************************************************************************)
\* Number of texts of TextPool the documents draw their text nodes from.
NumTexts == 3

TextPool ==
    << <<"a">>, <<"a", SPACE, SPACE>>, <<"b", SPACE, SPACE>>, <<"b">>, <<"a", SPACE, "b">> >>

Texts == {TextPool[i] : i \in 1..Min(NumTexts, Len(TextPool))}

P(kids) == Element("p", <<>>, kids)

Div(kids) == Element("div", <<>>, kids)

B(t) == Element("b", <<>>, <<TextNode(t)>>)

\* The documents: one block holding a text, an inline element, or a text and
\* an inline element; and two paragraphs.  A second text is the first text of
\* the pool.
Docs ==
    {<<P(<<TextNode(t)>>)>> : t \in Texts}
    \cup {<<Div(<<TextNode(t)>>)>> : t \in Texts}
    \cup {<<P(<<B(t)>>)>> : t \in Texts}
    \cup {<<Div(<<B(t)>>)>> : t \in Texts}
    \cup {<<P(<<TextNode(t), B(TextPool[1])>>)>> : t \in Texts}
    \cup {<<P(<<TextNode(t)>>), P(<<TextNode(TextPool[1])>>)>> : t \in Texts}

Htmls ==
    {[dom |-> d, spelling |-> "canonical"] : d \in Docs}
    \cup {[dom |-> <<P(<<TextNode(t)>>)>>, spelling |-> "alternate"] : t \in Texts}

\* element.innerHTML = html: the children the parser builds.
ParseHtml(html) == html.dom

\* The <div className="lexical-content" ref=... /> of a side.
Container(kids) == Element("div", <<Attr("class", <<"lexical-content">>)>>, kids)

\* container.innerHTML = html
SetInnerHtml(container, html) == [container EXCEPT !.kids = ParseHtml(html)]

(***************************************************************************)
(* The component                                                           *)
(***************************************************************************)
VARIABLES
    oldHtml, newHtml,     \* the props
    diffMode,             \* "side-by-side" or "inline"
    isProcessing,         \* the isProcessing state
    diffHtml,             \* the diffHtml state
    oldContainer,         \* oldContainerRef.current (NullNode: not mounted)
    newContainer,         \* newContainerRef.current
    pc,                   \* where the effect stands
    branch,               \* the branch processSideBySideDiff took in this pass
    diffs,                \* the diffs local of processSideBySideDiff: the scripts
                          \* line 1070 may have returned
    locals,               \* the locals of deepCompareAndMarkChanges
    index,                \* the old node the structural pass stands at
    invoked,              \* the functions called so far in this pass
    reported,             \* console.error was called in this pass
    failed,               \* the function that threw in this pass, or "none"
    changes               \* prop and mode changes since the mount

vars == <<oldHtml, newHtml, diffMode, isProcessing, diffHtml, oldContainer,
          newContainer, pc, branch, diffs, locals, index, invoked, reported, failed,
          changes>>

\* Number of changes of the props or of the mode after the mount.
MaxChanges == 1

props == <<oldHtml, newHtml, diffMode>>

passLocals == <<diffs, locals, index>>

\* useState initial values, the first render and the effect it schedules.
Init ==
    /\ oldHtml \in Htmls
    /\ newHtml \in Htmls
    /\ diffMode = "side-by-side"
    /\ isProcessing = TRUE
    /\ diffHtml = "empty"
    /\ oldContainer = Container(<<>>)
    /\ newContainer = Container(<<>>)
    /\ pc = "effect"
    /\ branch = "none"
    /\ diffs = {}
    /\ locals = NoLocals
    /\ index = 0
    /\ invoked = {}
    /\ reported = FALSE
    /\ failed = "none"
    /\ changes = 0

\* The condition of line 1063 without its second operand.
IsStructuralOnly_TextOnly(oldText, newText, old, new) == oldText = newText

\* The condition of line 1063.
IsStructuralOnly(oldText, newText, old, new) == oldText = newText /\ old # new

\* The effect without the two assignments to innerHTML of lines 1059-1060.
EffectStart_KeepTrees(old, new, mode, oldC, newC) ==
    /\ isProcessing' = TRUE
    /\ invoked' = {}
    /\ reported' = FALSE
    /\ failed' = "none"
    /\ UNCHANGED <<diffHtml, passLocals>>
    /\ oldContainer' = oldC
    /\ newContainer' = newC
    /\ IF mode = "inline"
       THEN pc' = "processInlineDiff" /\ branch' = "none"
       ELSE IF oldC = NullNode \/ newC = NullNode
       THEN pc' = "finish" /\ branch' = "none"
       ELSE IF IsStructuralOnly(textContent(oldC), textContent(newC), old, new)
       THEN branch' = "StructuralOnly" /\ pc' = "deepCompare"
       ELSE branch' = "TextualDiff" /\ pc' = "performDiff"

\* The effect of line 1047 from its start: lines 1048 and 1128-1132, and for
\* the side-by-side mode lines 1052-1067 up to the call the branch starts
\* with.  old, new and mode are the props and the mode it runs with, oldC and
\* newC the mounted containers.
EffectStart(old, new, mode, oldC, newC) ==
    /\ isProcessing' = TRUE
    /\ invoked' = {}
    /\ reported' = FALSE
    /\ failed' = "none"
    /\ UNCHANGED <<diffHtml, passLocals>>
    /\ IF mode = "inline"
       THEN /\ pc' = "processInlineDiff"
            /\ branch' = "none"
            /\ oldContainer' = oldC
            /\ newContainer' = newC
       ELSE IF oldC = NullNode \/ newC = NullNode
       THEN /\ pc' = "finish"
            /\ branch' = "none"
            /\ oldContainer' = oldC
            /\ newContainer' = newC
       ELSE /\ oldContainer' = SetInnerHtml(oldC, old)
            /\ newContainer' = SetInnerHtml(newC, new)
            /\ IF IsStructuralOnly(textContent(SetInnerHtml(oldC, old)),
                                   textContent(SetInnerHtml(newC, new)), old, new)
               THEN branch' = "StructuralOnly" /\ pc' = "deepCompare"
               ELSE branch' = "TextualDiff" /\ pc' = "performDiff"

\* The effect runs after the mount.
RunEffect ==
    /\ pc = "effect"
    /\ EffectStart(oldHtml, newHtml, diffMode, oldContainer, newContainer)
    /\ UNCHANGED <<props, changes>>

\* Line 1070: const diffs = performDiff(oldText, newText).  Nothing reads
\* diffs before lines 988-1013 of highlightChanges do: the variable holds
\* every script the call may have returned, and the reader takes one.
PerformDiff ==
    /\ pc = "performDiff"
    /\ diffs' = performDiff(textContent(oldContainer), textContent(newContainer))
    /\ invoked' = invoked \cup {"performDiff", "highlightChanges"}
    /\ pc' = "deepCompare"
    /\ UNCHANGED <<props, isProcessing, diffHtml, oldContainer, newContainer, branch,
                   locals, index, reported, failed, changes>>

\* deepCompareAndMarkChanges, lines 135-219: the node maps and the exact pass.
ExactPass ==
    /\ pc = "deepCompare"
    /\ locals' = ExactPassFrom(AlignerLocals(oldContainer, newContainer), 1)
    /\ index' = 1
    /\ invoked' = invoked \cup {"markStructuralChanges", "deepCompareAndMarkChanges"}
    /\ pc' = "structuralPass"
    /\ UNCHANGED <<props, isProcessing, diffHtml, oldContainer, newContainer, branch,
                   diffs, reported, failed, changes>>

\* deepCompareAndMarkChanges, lines 222-261: the iterations of the outer loop
\* up to and including the next one that pairs a node, or to the end.
StructuralPass ==
    /\ pc = "structuralPass"
    /\ LET i == NextStructural(locals, index)
       IN  IF i > Len(locals.sortedOldNodes)
           THEN /\ pc' = "residualPass"
                /\ index' = i
                /\ UNCHANGED <<locals, oldContainer, newContainer>>
           ELSE LET oldNode == locals.sortedOldNodes[i]
                    newNode == locals.sortedNewNodes[StructuralCandidate(locals, oldNode)]
                    paired == [locals EXCEPT
                                !.nodeMapping = MapSet(@, oldNode.path, newNode.path),
                                !.processedOldNodes = @ \cup {oldNode.path},
                                !.processedNewNodes = @ \cup {newNode.path}]
                IN  \E d \in performDiff(oldNode.textContent, newNode.textContent) :
                        /\ pc' = "structuralPass"
                        /\ index' = i + 1
                        /\ IF hasSignificantChanges(d)
                           THEN /\ oldContainer' = markTextDifferencesSide(
                                        oldContainer, oldNode.element, d, INSERT, "removed")
                                /\ newContainer' = markTextDifferencesSide(
                                        newContainer, newNode.element, d, DELETE, "added")
                                /\ locals' = [paired EXCEPT
                                        !.highlightedOld = @ \cup {oldNode.path},
                                        !.highlightedNew = @ \cup {newNode.path}]
                           ELSE /\ locals' = paired
                                /\ UNCHANGED <<oldContainer, newContainer>>
    /\ UNCHANGED <<props, isProcessing, diffHtml, branch, diffs, invoked, reported, failed, changes>>

\* deepCompareAndMarkChanges, lines 265-304: the two residual loops.
ResidualPass ==
    /\ pc = "residualPass"
    /\ \E backgroundWasChanged \in BOOLEAN :
        LET old == ResidualOldFrom(locals, oldContainer, 1, backgroundWasChanged)
            new == ResidualNewFrom(old[1], newContainer, 1, backgroundWasChanged)
        IN  /\ locals' = new[1]
            /\ oldContainer' = old[2]
            /\ newContainer' = new[2]
    /\ pc' = "markWhitespaceChanges"
    /\ UNCHANGED <<props, isProcessing, diffHtml, branch, diffs, index, invoked,
                   reported, failed, changes>>

\* markStructuralChanges, lines 683-684; then the return of line 1066 in the
\* StructuralOnly branch, or the rest of highlightChanges.
MarkWhitespace ==
    /\ pc = "markWhitespaceChanges"
    /\ oldContainer' = markWhitespaceChanges(oldContainer)
    /\ newContainer' = markWhitespaceChanges(newContainer)
    /\ invoked' = invoked \cup {"markWhitespaceChanges"}
    /\ pc' = IF branch = "StructuralOnly" THEN "finish" ELSE "applyTextNodeChanges"
    /\ UNCHANGED <<props, isProcessing, diffHtml, branch, passLocals, reported, failed, changes>>

\* highlightChanges, lines 964-1027, and lines 1081-1082.
HighlightText ==
    /\ pc = "applyTextNodeChanges"
    /\ \E d \in diffs :
        LET highlightedOld == applyTextNodeChanges(oldContainer,
                                extractTextNodes(oldContainer),
                                ChangesFrom(d, DELETE, "removed", 0))
            highlightedNew == applyTextNodeChanges(newContainer,
                                extractTextNodes(newContainer),
                                ChangesFrom(d, INSERT, "added", 0))
        IN  /\ oldContainer' = InnerHtmlRoundTrip(highlightedOld)
            /\ newContainer' = InnerHtmlRoundTrip(highlightedNew)
    /\ invoked' = invoked \cup {"applyTextNodeChanges"}
    /\ pc' = "finish"
    /\ UNCHANGED <<props, isProcessing, diffHtml, branch, passLocals, reported, failed, changes>>

\* A call of the current step throws.  Inside the try of lines 1073-1083
\* control goes to the catch; anywhere else the exception leaves the effect.
InTry == branch = "TextualDiff" /\ pc # "performDiff"

\* The calls of each step that may throw.
Throwers ==
    [performDiff |-> {"performDiff"},
     deepCompare |-> {"createNodeMap"},
     structuralPass |-> {"performDiff", "markTextDifferences"},
     residualPass |-> {"markNodeAsChanged"},
     markWhitespaceChanges |-> {"markWhitespaceChanges"},
     applyTextNodeChanges |-> {"applyTextNodeChanges"}]

Throw ==
    /\ pc \in DOMAIN Throwers
    /\ failed' \in Throwers[pc]
    /\ pc' = IF InTry THEN "catch" ELSE "escaped"
    /\ UNCHANGED <<props, isProcessing, diffHtml, oldContainer, newContainer, branch,
                   passLocals, invoked, reported, changes>>

\* Lines 1083-1088.
Catch ==
    /\ pc = "catch"
    /\ reported' = TRUE
    /\ oldContainer' = SetInnerHtml(oldContainer, oldHtml)
    /\ newContainer' = SetInnerHtml(newContainer, newHtml)
    /\ pc' = "finish"
    /\ UNCHANGED <<props, isProcessing, diffHtml, branch, passLocals, invoked, failed,
                   changes>>

\* /data-lexical-[^=]+=["'][^"']*["']/g replaced by "": the attributes of the
\* editor's namespace are cut out of the string.
RECURSIVE SanitizeNode(_)
SanitizeNode(n) ==
    IF IsText(n) THEN n
    ELSE [n EXCEPT !.attrs = SelectSeq(@, LAMBDA a : ~IsLexicalAttr(a.name)),
                   !.kids = [i \in 1..Len(@) |-> SanitizeNode(@[i])]]

Sanitize(html) == [html EXCEPT !.dom = [i \in 1..Len(@) |-> SanitizeNode(@[i])]]

\* processInlineDiff, lines 1093-1124.  htmldiff is outside the repository:
\* its result is kept as the call that produced it.
ProcessInlineDiff ==
    /\ pc = "processInlineDiff"
    /\ \/ /\ diffHtml' = [kind |-> "htmldiff", old |-> Sanitize(oldHtml),
                            new |-> Sanitize(newHtml)]
          /\ UNCHANGED <<reported, failed>>
       \/ /\ diffHtml' = [kind |-> "fallback", old |-> oldHtml, new |-> newHtml]
          /\ reported' = TRUE
          /\ failed' = "performHtmlDiff"
    /\ invoked' = invoked \cup {"performHtmlDiff"}
    /\ pc' = "finish"
    /\ UNCHANGED <<props, isProcessing, oldContainer, newContainer, branch, passLocals,
                   changes>>

\* Line 1134: setIsProcessing(false); the locals of the pass are gone.
Finish ==
    /\ pc = "finish"
    /\ isProcessing' = FALSE
    /\ diffs' = {}
    /\ locals' = NoLocals
    /\ index' = 0
    /\ pc' = "done"
    /\ UNCHANGED <<props, diffHtml, oldContainer, newContainer, branch, invoked,
                   reported, failed, changes>>

\* The parent renders the component with another oldHtml or newHtml, and
\* the effect of line 1047 runs again (dependencies of line 1135).
PropsChange ==
    /\ pc = "done"
    /\ changes < MaxChanges
    /\ \/ \E h \in Htmls \ {oldHtml} :
            /\ oldHtml' = h
            /\ UNCHANGED newHtml
            /\ EffectStart(h, newHtml, diffMode, oldContainer, newContainer)
       \/ \E h \in Htmls \ {newHtml} :
            /\ newHtml' = h
            /\ UNCHANGED oldHtml
            /\ EffectStart(oldHtml, h, diffMode, oldContainer, newContainer)
    /\ changes' = changes + 1
    /\ UNCHANGED diffMode

\* A radio button of lines 1143-1159: setDiffMode.  The render mounts the
\* containers of the chosen mode, empty, and unmounts the others; then the
\* effect runs again.
ToggleMode ==
    /\ pc = "done"
    /\ changes < MaxChanges
    /\ IF diffMode = "side-by-side"
       THEN /\ diffMode' = "inline"
            /\ EffectStart(oldHtml, newHtml, "inline", NullNode, NullNode)
       ELSE /\ diffMode' = "side-by-side"
            /\ EffectStart(oldHtml, newHtml, "side-by-side", Container(<<>>),
                           Container(<<>>))
    /\ changes' = changes + 1
    /\ UNCHANGED <<oldHtml, newHtml>>

Next ==
    \/ RunEffect
    \/ PerformDiff
    \/ ExactPass
    \/ StructuralPass
    \/ ResidualPass
    \/ MarkWhitespace
    \/ HighlightText
    \/ Throw
    \/ Catch
    \/ ProcessInlineDiff
    \/ Finish
    \/ PropsChange
    \/ ToggleMode

Spec == Init /\ [][Next]_vars

(***************************************************************************)
(* The Text Diff Engine on plain texts: the pass stands at line 1070 with  *)
(* containers that hold the plain texts A and B.                           *)
(***************************************************************************)
\* Longest plain text.
MaxLen == 2

\* A letter, a punctuation mark, the space and the no-break space.
Alphabet == {"a", ".", SPACE, NBSP}

Strings == UNION {[1..n -> Alphabet] : n \in 0..MaxLen}

PlainHtml(text) ==
    [dom |-> IF text = <<>> THEN <<>> ELSE <<TextNode(text)>>, spelling |-> "canonical"]

InitDiff ==
    /\ oldHtml \in {PlainHtml(t) : t \in Strings}
    /\ newHtml \in {PlainHtml(t) : t \in Strings}
    /\ diffMode = "side-by-side"
    /\ isProcessing = TRUE
    /\ diffHtml = "empty"
    /\ oldContainer = SetInnerHtml(Container(<<>>), oldHtml)
    /\ newContainer = SetInnerHtml(Container(<<>>), newHtml)
    /\ pc = "performDiff"
    /\ branch = "TextualDiff"
    /\ diffs = {}
    /\ locals = NoLocals
    /\ index = 0
    /\ invoked = {}
    /\ reported = FALSE
    /\ failed = "none"
    /\ changes = 0

NextDiff == PerformDiff

SpecDiff == InitDiff /\ [][NextDiff]_vars

(***************************************************************************)
(* C1                                                                      *)
(***************************************************************************)
\* C1: every DiffOp sequence performDiff(A, B) returns reconstructs A from
\* the fragments that are not insertions and B from the fragments that are
\* not deletions, for A and B over a letter, a punctuation mark, the space
\* and the no-break space.
C1_Reconstruction ==
    pc = "deepCompare" =>
        \A d \in diffs :
            /\ DiffText1(d) = textContent(oldContainer)
            /\ DiffText2(d) = textContent(newContainer)

\* The old text holds a no-break space and a returned script has a space in
\* its place.
C1_NbspLost ==
    /\ pc = "deepCompare"
    /\ \E d \in diffs :
        /\ Len(DiffText1(d)) = Len(textContent(oldContainer))
        /\ \E i \in 1..Len(DiffText1(d)) :
                textContent(oldContainer)[i] = NBSP /\ DiffText1(d)[i] = SPACE

(***************************************************************************)
(* The classes of the Node Aligner, read when deepCompareAndMarkChanges    *)
(* has returned.  side is "old" or "new".                                  *)
(***************************************************************************)
AlignmentDone == pc = "markWhitespaceChanges"

SideNodes(side) ==
    IF side = "old" THEN locals.sortedOldNodes ELSE locals.sortedNewNodes

SideElements(side) == Range(SideNodes(side))

\* e is one end of a pair of nodeMapping.
IsPaired(side, e) ==
    IF side = "old" THEN e.path \in DOMAIN locals.nodeMapping
    ELSE \E k \in DOMAIN locals.nodeMapping : locals.nodeMapping[k] = e.path

\* The element of e carries the whole-node marker of its side.
IsMarked(side, e) ==
    IF side = "old"
    THEN HasClass(findNodeByPath(oldContainer, e.element), "diff-node-removed")
    ELSE HasClass(findNodeByPath(newContainer, e.element), "diff-node-added")

\* e lies below an element that carries the whole-node marker.
IsCarried(side, e) ==
    \E a \in SideElements(side) :
        /\ Len(a.path) < Len(e.path)
        /\ IsPrefix(a.path, e.path)
        /\ IsMarked(side, a)

\* e lies below an element the pass highlighted: marked as a whole, or paired
\* and its text differences marked.
IsBelowHighlighted(side, e) ==
    hasHighlightedAncestor(
        IF side = "old" THEN locals.highlightedOld ELSE locals.highlightedNew, e.path)

(***************************************************************************)
(* C2                                                                      *)
(***************************************************************************)
\* C2 as stated: when deepCompareAndMarkChanges has returned, every element
\* of both trees is in exactly one class: matched (paired with an element of
\* the other tree), or removed / added (marked itself, or carried below a
\* marked element).
C2_ExactlyOneClass ==
    AlignmentDone =>
        \A side \in {"old", "new"} : \A e \in SideElements(side) :
            IsPaired(side, e) # (IsMarked(side, e) \/ IsCarried(side, e))

\* C2 as amended: when deepCompareAndMarkChanges has returned, every element
\* of both trees is paired, or marked removed / added itself, or lies below
\* an element that is marked or whose text differences are highlighted; and
\* no element is both paired and marked itself.
C2_Classified ==
    AlignmentDone =>
        \A side \in {"old", "new"} : \A e \in SideElements(side) :
            /\ IsPaired(side, e) \/ IsMarked(side, e) \/ IsBelowHighlighted(side, e)
            /\ ~(IsPaired(side, e) /\ IsMarked(side, e))

\* The pass ends with a paired element below a removed one, an element below
\* a text-highlighted pair that is neither paired nor marked, and an added
\* element.
C2_MixedClasses ==
    /\ AlignmentDone
    /\ \E e \in SideElements("old") :
            \/ IsPaired("old", e) /\ IsCarried("old", e)
            \/ /\ ~IsPaired("old", e) /\ ~IsMarked("old", e)
               /\ IsBelowHighlighted("old", e)
    /\ \E e \in SideElements("new") : IsMarked("new", e)

(***************************************************************************)
(* C3                                                                      *)
(***************************************************************************)
HasNodeMarker(node) ==
    HasClass(node, "diff-node-removed") \/ HasClass(node, "diff-node-added")

RECURSIVE MarkerAtOrBelow(_)
MarkerAtOrBelow(node) ==
    \/ HasNodeMarker(node)
    \/ \E i \in 1..Len(node.kids) : MarkerAtOrBelow(node.kids[i])

RECURSIVE NoMarkerBelowMarker(_)
NoMarkerBelowMarker(node) ==
    /\ HasNodeMarker(node) => \A i \in 1..Len(node.kids) : ~MarkerAtOrBelow(node.kids[i])
    /\ \A i \in 1..Len(node.kids) : NoMarkerBelowMarker(node.kids[i])

\* C3: an element that carries diff-node-removed or diff-node-added has no
\* descendant element that carries diff-node-removed or diff-node-added, in
\* both containers, once the alignment has run and until the pass ends.
C3_NoMarkerBelowMarker ==
    pc \in {"markWhitespaceChanges", "applyTextNodeChanges", "catch", "escaped",
            "finish", "done"} =>
        NoMarkerBelowMarker(oldContainer) /\ NoMarkerBelowMarker(newContainer)

\* The alignment has marked an element removed that has an element below it.
C3_MarkedWithDescendant ==
    /\ AlignmentDone
    /\ \E e \in SideElements("old") :
        /\ IsMarked("old", e)
        /\ \E c \in SideElements("old") :
                Len(e.path) < Len(c.path) /\ IsPrefix(e.path, c.path)

(***************************************************************************)
(* C4                                                                      *)
(***************************************************************************)
RECURSIVE HasSplitText(_, _)
\* Some text node below node was split: a span of class cls stands next to a
\* text node under the same parent.
HasSplitText(node, cls) ==
    \/ \E i \in 1..Len(node.kids) :
        /\ HasClass(node.kids[i], cls)
        /\ \/ i > 1 /\ IsText(node.kids[i - 1])
           \/ i < Len(node.kids) /\ IsText(node.kids[i + 1])
    \/ \E i \in 1..Len(node.kids) : HasSplitText(node.kids[i], cls)

HighlightingStep == pc \in {"structuralPass", "applyTextNodeChanges"}

\* C4: a step of applyWordHighlighting (in the structural pass) or of
\* applyTextNodeChanges replaces text nodes by before + highlighted + after
\* with the same characters: the text content of each container after the
\* step is its text content before the step.
C4_TextPreserved ==
    [][HighlightingStep =>
            /\ textContent(oldContainer') = textContent(oldContainer)
            /\ textContent(newContainer') = textContent(newContainer)
      ]_vars

\* Both applicators have run and the old container holds a text node that
\* was split around a diff-removed span.
C4_SplitHappened ==
    /\ pc = "finish"
    /\ "applyTextNodeChanges" \in invoked
    /\ HasSplitText(oldContainer, "diff-removed")
    /\ HasSplitText(newContainer, "diff-added")

(***************************************************************************)
(* The end of a side-by-side pass                                          *)
(***************************************************************************)
SideBySide == diffMode = "side-by-side"

PassEnded == pc \in {"finish", "done"}

\* Both containers hold what the props parse to.
Restored ==
    /\ oldContainer = SetInnerHtml(Container(<<>>), oldHtml)
    /\ newContainer = SetInnerHtml(Container(<<>>), newHtml)

\* The calls that change a container.
MutatingCalls ==
    {"markTextDifferences", "markNodeAsChanged", "markWhitespaceChanges",
     "applyTextNodeChanges"}

RECURSIVE HasMarker(_)
\* node or a node below it carries one of the five marker classes.
HasMarker(node) ==
    \/ \E cls \in {"diff-removed", "diff-added", "diff-node-removed", "diff-node-added",
                   "diff-whitespace"} : HasClass(node, cls)
    \/ \E i \in 1..Len(node.kids) : HasMarker(node.kids[i])

(***************************************************************************)
(* C5                                                                      *)
(***************************************************************************)
\* C5: when a call that changes the containers has thrown in a side-by-side
\* pass, in either branch, no exception leaves the pass, and the pass ends
\* with the failure reported and both containers holding the original
\* oldHtml and newHtml.
C5_MutationFailureRecovered ==
    SideBySide /\ failed \in MutatingCalls =>
        /\ pc # "escaped"
        /\ PassEnded => reported /\ Restored

\* markWhitespaceChanges threw in the StructuralOnly branch: the exception
\* left the pass and a container keeps a marker.
C5_EscapedWithMarkers ==
    /\ pc = "escaped"
    /\ branch = "StructuralOnly"
    /\ failed \in MutatingCalls
    /\ HasMarker(oldContainer) \/ HasMarker(newContainer)

(***************************************************************************)
(* C6                                                                      *)
(***************************************************************************)
\* C6: when performDiff has thrown in a side-by-side pass, no exception
\* leaves the pass, and the pass ends with the failure reported and both
\* containers holding the original oldHtml and newHtml.
C6_DiffFailureRecovered ==
    SideBySide /\ failed = "performDiff" =>
        /\ pc # "escaped"
        /\ PassEnded => reported /\ Restored

\* The call of line 1070 threw and the exception left the pass.
C6_DiffFailureEscaped ==
    /\ pc = "escaped"
    /\ branch = "TextualDiff"
    /\ failed = "performDiff"
    /\ invoked = {}

(***************************************************************************)
(* C7                                                                      *)
(***************************************************************************)
\* The pass stands before a statement of the effect, which it can execute.
\* In "escaped" the exception has left the effect and nothing of it is left
\* to run; "done" is past line 1134.
Running ==
    pc \in {"effect", "performDiff", "deepCompare", "structuralPass", "residualPass",
            "markWhitespaceChanges", "applyTextNodeChanges", "catch",
            "processInlineDiff", "finish"}

\* C7: every pass reaches Done, whichever branch it takes and whether or not
\* a step fails: a pass that has not reached Done has a statement left to
\* execute, and in Done isProcessing is false.
C7_PassReachesDone ==
    IF pc = "done" THEN ~isProcessing ELSE Running

\* A pass stopped short of Done with isProcessing still true.
C7_StuckProcessing ==
    /\ pc = "escaped"
    /\ isProcessing
    /\ failed # "none"

(***************************************************************************)
(* C8                                                                      *)
(***************************************************************************)
\* C8: a side-by-side pass takes the StructuralOnly branch exactly when the
\* two props parse to the same text content and are different strings, the
\* TextualDiff branch in every other case, and runs nothing of the other
\* branch.
C8_BranchChoice ==
    SideBySide /\ pc # "effect" =>
        LET sameText == textContent(SetInnerHtml(Container(<<>>), oldHtml))
                            = textContent(SetInnerHtml(Container(<<>>), newHtml))
        IN  /\ branch = IF sameText /\ oldHtml # newHtml THEN "StructuralOnly"
                        ELSE "TextualDiff"
            /\ branch = "StructuralOnly" =>
                    invoked \cap {"performDiff", "highlightChanges",
                                  "applyTextNodeChanges"} = {}
            /\ branch = "TextualDiff" /\ pc = "done" /\ failed = "none" =>
                    {"performDiff", "highlightChanges"} \subseteq invoked

\* A pass took the StructuralOnly branch for two different strings with the
\* same parse, and ended.
C8_StructuralOnlySameDom ==
    /\ SideBySide
    /\ pc = "done"
    /\ branch = "StructuralOnly"
    /\ oldHtml.dom = newHtml.dom

(***************************************************************************)
(* C9                                                                      *)
(***************************************************************************)
\* C9: in the TextualDiff branch deepCompareAndMarkChanges is never invoked.
C9_NoAlignerInTextualDiff ==
    branch = "TextualDiff" => "deepCompareAndMarkChanges" \notin invoked

\* A TextualDiff pass ended after the aligner marked an element removed.
C9_AlignerMarkedInTextualDiff ==
    /\ branch = "TextualDiff"
    /\ pc = "done"
    /\ "deepCompareAndMarkChanges" \in invoked
    /\ \E i \in 1..Len(oldContainer.kids) :
            HasClass(oldContainer.kids[i], "diff-node-removed")

(***************************************************************************)
(* C10                                                                     *)
(***************************************************************************)
\* C10: a side-by-side pass on byte-identical oldHtml and newHtml ends in
\* Done with both containers holding the input and no marker.
C10_IdenticalInputsUntouched ==
    SideBySide /\ oldHtml = newHtml =>
        /\ pc # "escaped"
        /\ pc = "done" =>
                /\ Restored
                /\ ~HasMarker(oldContainer) /\ ~HasMarker(newContainer)

\* A pass on identical inputs ended without a failure and with a
\* diff-whitespace marker in both containers.
C10_WhitespaceMarked ==
    /\ SideBySide
    /\ oldHtml = newHtml
    /\ pc = "done"
    /\ failed = "none"
    /\ HasMarker(oldContainer) /\ HasMarker(newContainer)

(***************************************************************************)
(* C11                                                                     *)
(***************************************************************************)
RECURSIVE HasClassBelow(_, _)
\* node or a node below it carries the class cls.
HasClassBelow(node, cls) ==
    \/ HasClass(node, cls)
    \/ \E i \in 1..Len(node.kids) : HasClassBelow(node.kids[i], cls)

\* The two props parse to the same text content.
SameText ==
    textContent(SetInnerHtml(Container(<<>>), oldHtml))
        = textContent(SetInnerHtml(Container(<<>>), newHtml))

\* C11: a side-by-side pass whose two texts differ never emits a
\* diff-whitespace marker: no container holds one at any point of the pass.
C11_WhitespaceOnlyWhenTextsMatch ==
    SideBySide /\ pc # "effect" /\ ~SameText =>
        /\ ~HasClassBelow(oldContainer, "diff-whitespace")
        /\ ~HasClassBelow(newContainer, "diff-whitespace")

\* A pass on two different texts ended without a failure and left a
\* diff-whitespace marker in the new container.
C11_WhitespaceInTextualDiff ==
    /\ SideBySide
    /\ pc = "done"
    /\ branch = "TextualDiff"
    /\ failed = "none"
    /\ ~SameText
    /\ HasClassBelow(newContainer, "diff-whitespace")


(***************************************************************************)
(* The whitespace highlighter on text with markup characters: the two      *)
(* props spell one paragraph in two ways, so the pass takes the            *)
(* StructuralOnly branch, the aligner pairs every node and                 *)
(* markWhitespaceChanges works on the text as the props gave it.           *)
(***************************************************************************)
\* Longest text of a paragraph.
MaxWsLen == 4

\* A letter, the space, and the two characters HTML escapes in text.
MarkupAlphabet == {"a", SPACE, "<", "&"}

MarkupStrings == UNION {[1..n -> MarkupAlphabet] : n \in 1..MaxWsLen}

InitWs ==
    /\ \E t \in MarkupStrings :
        /\ oldHtml = [dom |-> <<P(<<TextNode(t)>>)>>, spelling |-> "canonical"]
        /\ newHtml = [dom |-> <<P(<<TextNode(t)>>)>>, spelling |-> "alternate"]
    /\ diffMode = "side-by-side"
    /\ isProcessing = TRUE
    /\ diffHtml = "empty"
    /\ oldContainer = Container(<<>>)
    /\ newContainer = Container(<<>>)
    /\ pc = "effect"
    /\ branch = "none"
    /\ diffs = {}
    /\ locals = NoLocals
    /\ index = 0
    /\ invoked = {}
    /\ reported = FALSE
    /\ failed = "none"
    /\ changes = 0

NextWs ==
    \/ RunEffect
    \/ ExactPass
    \/ StructuralPass
    \/ ResidualPass
    \/ MarkWhitespace
    \/ Finish

SpecWs == InitWs /\ [][NextWs]_vars

RECURSIVE HasUnmarkedSpaceRun(_, _)
\* Some text node at or below node holds two consecutive spaces and is not
\* inside a diff-whitespace element; inside says node itself is inside one.
HasUnmarkedSpaceRun(node, inside) ==
    IF IsText(node) THEN ~inside /\ HasMultipleSpaces(node.text)
    ELSE \E i \in 1..Len(node.kids) :
            HasUnmarkedSpaceRun(node.kids[i], inside \/ HasClass(node, "diff-whitespace"))

\* C12: markWhitespaceChanges inserts and deletes no character, whatever the
\* text holds ("<" and "&" included): the text content of each container
\* after the call is its text content before the call, and after the call
\* every run of two or more spaces of a text node is inside a
\* diff-whitespace marker.
C12_WhitespaceKeepsText ==
    [][pc = "markWhitespaceChanges" =>
        /\ textContent(oldContainer') = textContent(oldContainer)
        /\ textContent(newContainer') = textContent(newContainer)
        /\ ~HasUnmarkedSpaceRun(oldContainer', FALSE)
        /\ ~HasUnmarkedSpaceRun(newContainer', FALSE)
    ]_vars

\* markWhitespaceChanges has run on a text with a space run and the text
\* content of the old side is no longer the text of oldHtml.
C12_TextLost ==
    /\ pc = "finish"
    /\ "markWhitespaceChanges" \in invoked
    /\ HasMultipleSpaces(textContent(SetInnerHtml(Container(<<>>), oldHtml)))
    /\ textContent(oldContainer) # textContent(SetInnerHtml(Container(<<>>), oldHtml))


(***************************************************************************)
(* Whitespace in the two highlight applicators                             *)
(***************************************************************************)
\* The text nodes of a container with the range of the container's text
\* each one holds.
TextRanges(container) == Range(TextNodesWithPositions(container, <<>>, 0))

\* The node at path lies inside an inline marker of the container.
InInlineMarker(container, path) ==
    \E k \in 1..(Len(path) - 1) :
        LET ancestor == findNodeByPath(container, SubSeq(path, 1, k))
        IN  HasClass(ancestor, "diff-removed") \/ HasClass(ancestor, "diff-added")

\* No inline marker of the container holds whitespace only.
NoWhitespaceMarker(container) ==
    \A m \in TextRanges(container) :
        InInlineMarker(container, m.node) =>
            HasNonWhitespace(findNodeByPath(container, m.node).text)

\* Every text node of `before` whose range meets no inline marker of `after`
\* is a text node of `after`, with the same range.
UnmarkedTextKept(before, after) ==
    \A t \in TextRanges(before) :
        \/ \E m \in TextRanges(after) :
                InInlineMarker(after, m.node) /\ m.start < t.end /\ t.start < m.end
        \/ \E u \in TextRanges(after) :
                /\ u.start = t.start /\ u.end = t.end
                /\ ~InInlineMarker(after, u.node)

\* C13: in applyWordHighlighting (the structural pass) the part of a changed
\* group that falls in a text node and is whitespace only gets no marker and
\* leaves the text node as it was: after a step no inline marker holds
\* whitespace only, and a text node is replaced only where a marker was
\* made.
C13_WhitespaceIntersectionSkipped ==
    [][pc = "structuralPass" =>
        /\ NoWhitespaceMarker(oldContainer') /\ NoWhitespaceMarker(newContainer')
        /\ UnmarkedTextKept(oldContainer, oldContainer')
        /\ UnmarkedTextKept(newContainer, newContainer')
    ]_vars

\* The structural pass has highlighted the old side against a new text
\* without whitespace, so every whitespace character of the old side was in
\* a changed group; the marker was made next to a text node that ends in
\* whitespace and stayed outside it.
C13_WhitespaceLeftUnmarked ==
    /\ pc = "structuralPass"
    /\ locals.highlightedOld # {}
    /\ ~\E i \in 1..Len(textContent(newContainer)) : IsWhitespace(textContent(newContainer)[i])
    /\ \E t, m \in TextRanges(oldContainer) :
        /\ ~InInlineMarker(oldContainer, t.node)
        /\ InInlineMarker(oldContainer, m.node)
        /\ t.end = m.start
        /\ IsWhitespace(findNodeByPath(oldContainer, t.node).text[t.end - t.start])


\* The text node at path lies inside an element of class cls.
InMarkerOf(container, path, cls) ==
    \E k \in 1..(Len(path) - 1) :
        HasClass(findNodeByPath(container, SubSeq(path, 1, k)), cls)

\* Every character of the range [start, end) of the container's text is in
\* a text node inside an element of class cls.
RangeMarked(container, start, end, cls) ==
    \A k \in start..(end - 1) :
        \E t \in TextRanges(container) :
            /\ t.start <= k /\ k < t.end
            /\ InMarkerOf(container, t.node, cls)

\* The step taken is highlightChanges reading the script d.
HighlightedWith(d) ==
    /\ oldContainer' = InnerHtmlRoundTrip(
            applyTextNodeChanges(oldContainer, extractTextNodes(oldContainer),
                                 ChangesFrom(d, DELETE, "removed", 0)))
    /\ newContainer' = InnerHtmlRoundTrip(
            applyTextNodeChanges(newContainer, extractTextNodes(newContainer),
                                 ChangesFrom(d, INSERT, "added", 0)))

\* Every whitespace-only fragment of op in d is marked cls in the container.
WhitespaceFragmentsMarked(d, op, container, cls) ==
    LET fragments == ChangesFrom(d, op, "removed", 0)
    IN  \A i \in 1..Len(fragments) :
            IsWhitespaceOnly(fragments[i].text) =>
                RangeMarked(container, fragments[i].start, fragments[i].end, cls)

(***************************************************************************)
(* Paragraphs whose text mixes letters, spaces and no-break spaces: the    *)
(* whitespace highlighter cuts such a text node into several nodes under   *)
(* one parent before applyTextNodeChanges runs.                            *)
(***************************************************************************)
\* Longest text of the old paragraph; the new one is two characters shorter.
MaxSpacedLen == 4

SpacedAlphabet == {"a", SPACE, NBSP}

SpacedStrings(n) == UNION {[1..k -> SpacedAlphabet] : k \in 1..n}

InitSpaced ==
    /\ oldHtml \in {[dom |-> <<P(<<TextNode(t)>>)>>, spelling |-> "canonical"] :
                        t \in SpacedStrings(MaxSpacedLen)}
    /\ newHtml \in {[dom |-> <<P(<<TextNode(t)>>)>>, spelling |-> "canonical"] :
                        t \in SpacedStrings(MaxSpacedLen - 2)}
    /\ diffMode = "side-by-side"
    /\ isProcessing = TRUE
    /\ diffHtml = "empty"
    /\ oldContainer = Container(<<>>)
    /\ newContainer = Container(<<>>)
    /\ pc = "effect"
    /\ branch = "none"
    /\ diffs = {}
    /\ locals = NoLocals
    /\ index = 0
    /\ invoked = {}
    /\ reported = FALSE
    /\ failed = "none"
    /\ changes = 0

NextSpaced ==
    \/ RunEffect
    \/ PerformDiff
    \/ ExactPass
    \/ StructuralPass
    \/ ResidualPass
    \/ MarkWhitespace
    \/ HighlightText
    \/ Finish

SpecSpaced == InitSpaced /\ [][NextSpaced]_vars

\* C14: in the TextualDiff branch a deleted (inserted) fragment of the diff
\* that is whitespace only is not suppressed: after applyTextNodeChanges its
\* characters are inside a diff-removed marker of the old side (a diff-added
\* marker of the new side).
C14_WhitespaceFragmentMarked ==
    [][pc = "applyTextNodeChanges" /\ pc' = "finish" =>
        \E d \in diffs :
            /\ HighlightedWith(d)
            /\ WhitespaceFragmentsMarked(d, DELETE, oldContainer', "diff-removed")
            /\ WhitespaceFragmentsMarked(d, INSERT, newContainer', "diff-added")
    ]_vars

\* The TextualDiff branch has ended on an old text whose whitespace was all
\* deleted, and a whitespace character of the old side is outside every
\* diff-removed marker.
C14_WhitespaceLeftOut ==
    /\ pc = "finish" /\ branch = "TextualDiff" /\ failed = "none"
    /\ "applyTextNodeChanges" \in invoked
    /\ ~\E i \in 1..Len(textContent(newContainer)) : IsWhitespace(textContent(newContainer)[i])
    /\ \E t \in TextRanges(oldContainer) :
        /\ ~InMarkerOf(oldContainer, t.node, "diff-removed")
        /\ IsWhitespaceOnly(findNodeByPath(oldContainer, t.node).text)


(***************************************************************************)
(* The unit of highlighting                                                *)
(***************************************************************************)
\* Offset k of text is not inside a word: it is an end of the text, or one
\* of the two characters around it is whitespace or punctuation.
IsWordBoundary(text, k) ==
    \/ k = 0
    \/ k = Len(text)
    \/ CharClass(text[k]) # "w"
    \/ CharClass(text[k + 1]) # "w"

\* Every text node inside an inline marker of the container starts and ends
\* at a word boundary of the container's text.
MarkersCoverWholeWords(container) ==
    \A m \in TextRanges(container) :
        InInlineMarker(container, m.node) =>
            /\ IsWordBoundary(textContent(container), m.start)
            /\ IsWordBoundary(textContent(container), m.end)

\* C15: every inline marker covers whole words only: at the end of a pass
\* each highlighted span of either side starts and ends at a word,
\* punctuation or whitespace boundary of the text, so no marker covers part
\* of a word.
C15_WholeWordMarkers ==
    SideBySide /\ PassEnded /\ failed = "none" =>
        /\ MarkersCoverWholeWords(oldContainer)
        /\ MarkersCoverWholeWords(newContainer)

\* Old text "aa" against new text "a": the diff is EQUAL "a", DELETE "a",
\* and the old side ends with a marker on the second letter of its word.
C15_HalfWordMarked ==
    /\ pc = "finish" /\ failed = "none"
    /\ textContent(oldContainer) = <<"a", "a">>
    /\ textContent(newContainer) = <<"a">>
    /\ <<DiffOp(EQUAL, <<"a">>), DiffOp(DELETE, <<"a">>)>> \in diffs
    /\ \E m \in TextRanges(oldContainer) :
        /\ InInlineMarker(oldContainer, m.node)
        /\ m.start = 1 /\ m.end = 2


(***************************************************************************)
(* Documents whose block carries an inline style, which markNodeAsChanged  *)
(* reads.                                                                  *)
(***************************************************************************)
StyleValue == <<"color:", "red">>

Styled(tag, t) == Element(tag, <<Attr("style", StyleValue)>>, <<TextNode(t)>>)

StyledDocs ==
    {<<P(<<TextNode(t)>>)>> : t \in Texts}
    \cup {<<Div(<<TextNode(t)>>)>> : t \in Texts}
    \cup {<<Styled("p", t)>> : t \in Texts}
    \cup {<<Styled("div", t)>> : t \in Texts}

InitStyled ==
    /\ oldHtml \in {[dom |-> d, spelling |-> "canonical"] : d \in StyledDocs}
    /\ newHtml \in {[dom |-> d, spelling |-> "canonical"] : d \in StyledDocs}
    /\ diffMode = "side-by-side"
    /\ isProcessing = TRUE
    /\ diffHtml = "empty"
    /\ oldContainer = Container(<<>>)
    /\ newContainer = Container(<<>>)
    /\ pc = "effect"
    /\ branch = "none"
    /\ diffs = {}
    /\ locals = NoLocals
    /\ index = 0
    /\ invoked = {}
    /\ reported = FALSE
    /\ failed = "none"
    /\ changes = 0

NextStyled ==
    \/ RunEffect
    \/ PerformDiff
    \/ ExactPass
    \/ StructuralPass
    \/ ResidualPass
    \/ MarkWhitespace
    \/ HighlightText
    \/ Finish

SpecStyled == InitStyled /\ [][NextStyled]_vars

\* The containers the residual pass leaves when the style sheets in force
\* make getComputedStyle answer backgroundWasChanged.
ResidualOutput(backgroundWasChanged) ==
    LET old == ResidualOldFrom(locals, oldContainer, 1, backgroundWasChanged)
        new == ResidualNewFrom(old[1], newContainer, 1, backgroundWasChanged)
    IN  <<old[2], new[2]>>

\* C16: the side-by-side pass is deterministic and its output depends on
\* nothing outside oldHtml and newHtml: the trees the residual pass leaves
\* are the same whatever the environment answers to the one question the
\* pass asks it (getComputedStyle in markNodeAsChanged).
C16_OutputFromInputsOnly ==
    [][pc = "residualPass" =>
        \A backgroundWasChanged \in BOOLEAN :
            <<oldContainer', newContainer'>> = ResidualOutput(backgroundWasChanged)
    ]_vars

\* The residual pass has marked a styled element of the old side as removed
\* and, the computed background not being transparent, has added
\* data-original-style to it.
C16_StyleSheetDecided ==
    /\ pc = "markWhitespaceChanges"
    /\ \E i \in 1..Len(oldContainer.kids) :
        /\ HasClass(oldContainer.kids[i], "diff-node-removed")
        /\ GetAttribute(oldContainer.kids[i], "style") # <<>>
        /\ GetAttribute(oldContainer.kids[i], "data-original-style") # <<>>


(***************************************************************************)
(* A pass after a change of the props                                      *)
(***************************************************************************)
\* A side-by-side pass starts: the props or the mode have changed after a
\* finished pass and the effect has run up to its first call.
PassRestarts == pc = "done" /\ pc' # "done" /\ diffMode' = "side-by-side"

\* C17: a pass that follows a finished pass starts where a single pass on
\* the last oldHtml and newHtml starts: the containers are fresh copies of
\* the two inputs, and no marker, node map, processed set or diff of the
\* earlier pass is left.
C17_PassStartsFresh ==
    [][PassRestarts =>
        /\ oldContainer' = SetInnerHtml(Container(<<>>), oldHtml')
        /\ newContainer' = SetInnerHtml(Container(<<>>), newHtml')
        /\ locals' = NoLocals /\ diffs' = {} /\ index' = 0
        /\ invoked' = {} /\ failed' = "none" /\ ~reported'
    ]_vars

\* The props were changed to two equal documents after a pass on different
\* ones, which left markers, and the new pass stands at its first call with
\* no marker in either container.
C17_RestartedWithoutMarkers ==
    /\ SideBySide /\ changes >= 1 /\ invoked = {}
    /\ pc \in {"performDiff", "deepCompare"}
    /\ oldHtml = newHtml
    /\ \A cls \in {"diff-removed", "diff-added", "diff-node-removed", "diff-node-added",
                    "diff-whitespace"} :
            ~HasClassBelow(oldContainer, cls) /\ ~HasClassBelow(newContainer, cls)


(***************************************************************************)
(* The three passes of the aligner                                         *)
(***************************************************************************)
\* The exact pass has ended and the structural pass has not started.
AfterExactPass == pc = "structuralPass" /\ index = 1

\* The entries are in ascending depth, those of one depth in document order.
InVisitOrder(nodes) ==
    \A i, j \in 1..Len(nodes) :
        i < j =>
            \/ nodes[i].depth < nodes[j].depth
            \/ /\ nodes[i].depth = nodes[j].depth
               /\ PathBefore(nodes[i].element, nodes[j].element)

\* The old node of index i and the new node of index j have the same
\* signature and the same text.
ExactFit(i, j) ==
    /\ locals.sortedOldNodes[i].signature = locals.sortedNewNodes[j].signature
    /\ locals.sortedOldNodes[i].textContent = locals.sortedNewNodes[j].textContent

\* The old node of index i is paired with the new node of index j.
PairedWith(i, j) ==
    /\ locals.sortedOldNodes[i].path \in DOMAIN locals.nodeMapping
    /\ locals.nodeMapping[locals.sortedOldNodes[i].path] = locals.sortedNewNodes[j].path

\* The new nodes that fit the old node of index i and are paired with no
\* old node before it.
FreeFits(i) ==
    {j \in 1..Len(locals.sortedNewNodes) :
        ExactFit(i, j) /\ ~\E h \in 1..(i - 1) : PairedWith(h, j)}

\* C18: the exact pass visits the old nodes in ascending depth, ties in
\* document order, and pairs each with the first new node, in the same
\* order, not paired before that has its signature and its text; a node
\* with no such candidate stays unpaired, and no pair differs in signature
\* or in text.
C18_ExactFirstFit ==
    AfterExactPass =>
        /\ InVisitOrder(locals.sortedOldNodes)
        /\ InVisitOrder(locals.sortedNewNodes)
        /\ \A i \in 1..Len(locals.sortedOldNodes) :
                IF FreeFits(i) = {}
                THEN locals.sortedOldNodes[i].path \notin DOMAIN locals.nodeMapping
                ELSE PairedWith(i, CHOOSE j \in FreeFits(i) : \A k \in FreeFits(i) : j <= k)
        /\ \A i \in 1..Len(locals.sortedOldNodes), j \in 1..Len(locals.sortedNewNodes) :
                PairedWith(i, j) => ExactFit(i, j)

\* The exact pass has paired an old node that had two candidates, and the
\* second candidate is left without a pair.
C18_FirstOfTwoCandidates ==
    /\ AfterExactPass
    /\ \E i \in 1..Len(locals.sortedOldNodes), j, k \in 1..Len(locals.sortedNewNodes) :
        /\ j < k /\ PairedWith(i, j) /\ ExactFit(i, k)
        /\ ~\E h \in 1..Len(locals.sortedOldNodes) : PairedWith(h, k)


\* A step of the structural pass that pairs a node.
StructuralPairStep == pc = "structuralPass" /\ pc' = "structuralPass"

\* The first new node, in visit order, that is still unpaired, has no
\* decided ancestor and has the signature of the old node of index i.
FirstUnpairedOfSignature(i) ==
    LET free == {j \in 1..Len(locals.sortedNewNodes) :
                    /\ ~SkippedNew(locals, j)
                    /\ locals.sortedNewNodes[j].signature
                            = locals.sortedOldNodes[i].signature}
    IN  CHOOSE j \in free : \A k \in free : j <= k

\* The script has a delete or insert fragment with non-whitespace content.
HasNonWhitespaceChange(d) ==
    \E k \in 1..Len(d) : d[k].op \in {DELETE, INSERT} /\ HasNonWhitespace(d[k].text)

\* C19: a step of the structural pass pairs a still-unpaired old node with
\* the first still-unpaired new node of its signature.  The two are
\* text-highlighted and decided if and only if the word diff of their texts
\* has a delete or insert fragment with non-whitespace content; otherwise
\* they are paired and not decided, no tree changes, and no other node
\* becomes processed or gets a decided ancestor, so their descendants stay
\* eligible.
C19_StructuralPairing ==
    [][StructuralPairStep =>
        LET i == index' - 1
            oldNode == locals.sortedOldNodes[i]
            j == FirstUnpairedOfSignature(i)
            newNode == locals.sortedNewNodes[j]
        IN  /\ ~SkippedOld(locals, i)
            /\ locals'.nodeMapping = MapSet(locals.nodeMapping, oldNode.path, newNode.path)
            /\ locals'.processedOldNodes = locals.processedOldNodes \cup {oldNode.path}
            /\ locals'.processedNewNodes = locals.processedNewNodes \cup {newNode.path}
            /\ \E d \in performDiff(oldNode.textContent, newNode.textContent) :
                IF HasNonWhitespaceChange(d)
                THEN /\ locals'.highlightedOld = locals.highlightedOld \cup {oldNode.path}
                     /\ locals'.highlightedNew = locals.highlightedNew \cup {newNode.path}
                     /\ oldContainer' = markTextDifferencesSide(
                            oldContainer, oldNode.element, d, INSERT, "removed")
                     /\ newContainer' = markTextDifferencesSide(
                            newContainer, newNode.element, d, DELETE, "added")
                ELSE /\ locals'.highlightedOld = locals.highlightedOld
                     /\ locals'.highlightedNew = locals.highlightedNew
                     /\ UNCHANGED <<oldContainer, newContainer>>
    ]_vars

\* An old node was paired without being decided (it has a pair of another
\* text and is not highlighted), and a node below it was then paired by the
\* structural pass as well.
C19_DescendantPairedAfterUndecided ==
    /\ pc = "structuralPass"
    /\ \E i, k \in 1..Len(locals.sortedOldNodes), j, m \in 1..Len(locals.sortedNewNodes) :
        /\ PairedWith(i, j) /\ ~ExactFit(i, j)
        /\ locals.sortedOldNodes[i].path \notin locals.highlightedOld
        /\ Len(locals.sortedOldNodes[k].path) > Len(locals.sortedOldNodes[i].path)
        /\ IsPrefix(locals.sortedOldNodes[i].path, locals.sortedOldNodes[k].path)
        /\ PairedWith(k, m) /\ ~ExactFit(k, m)


\* The residual pass runs.
ResidualStep == pc = "residualPass" /\ pc' = "markWhitespaceChanges"

\* a is a proper ancestor of e in the node map.
IsProperAncestor(a, e) == Len(a.path) < Len(e.path) /\ IsPrefix(a.path, e.path)

\* The residual pass on one side.  nodes is the sorted node list, paired the
\* paths that have a pair, decided the paths the structural pass decided,
\* after the tree the pass leaves, processed and highlighted its sets after
\* the pass, cls the whole-node class of the side.
ResidualSideAsClaimed(nodes, paired, decided, after, processed, highlighted, cls) ==
    LET below(e) == \E a \in Range(nodes) : IsProperAncestor(a, e) /\ a.path \in decided
        marked(e) == HasClass(findNodeByPath(after, e.element), cls)
    IN  /\ \A e \in Range(nodes) :
            IF below(e) THEN TRUE
            ELSE /\ marked(e) <=>
                        /\ e.path \notin paired
                        /\ ~\E a \in Range(nodes) : IsProperAncestor(a, e) /\ marked(a)
                 /\ marked(e) =>
                        /\ e.path \in highlighted
                        /\ \A k \in Range(nodes) :
                                IsProperAncestor(e, k) => k.path \in processed
        /\ \A e \in Range(nodes) :
            e.path \in decided =>
                LET node == findNodeByPath(after, e.element)
                IN  \A i \in 1..Len(node.kids) : ~HasClassBelow(node.kids[i], cls)

\* C20: in the residual pass an old (new) element gets diff-node-removed
\* (diff-node-added) if and only if, visited in ascending depth, it has no
\* pair and no decided ancestor (one the structural pass highlighted or the
\* residual pass marked before it); the marked element is decided, and each
\* of its descendants is recorded as processed and gets no marker of its
\* own.
C20_ResidualMarking ==
    [][ResidualStep =>
        /\ ResidualSideAsClaimed(locals.sortedOldNodes, DOMAIN locals.nodeMapping,
                locals.highlightedOld, oldContainer', locals'.processedOldNodes,
                locals'.highlightedOld, "diff-node-removed")
        /\ ResidualSideAsClaimed(locals.sortedNewNodes,
                {locals.nodeMapping[o] : o \in DOMAIN locals.nodeMapping},
                locals.highlightedNew, newContainer', locals'.processedNewNodes,
                locals'.highlightedNew, "diff-node-added")
    ]_vars

\* The residual pass has marked an old element that has an element below
\* it, and that descendant is recorded as processed without a pair.
C20_MarkedWithProcessedDescendant ==
    /\ pc = "markWhitespaceChanges"
    /\ \E e, k \in Range(locals.sortedOldNodes) :
        /\ IsProperAncestor(e, k)
        /\ HasClass(findNodeByPath(oldContainer, e.element), "diff-node-removed")
        /\ k.path \notin DOMAIN locals.nodeMapping
        /\ k.path \in locals.processedOldNodes
        /\ ~HasClass(findNodeByPath(oldContainer, k.element), "diff-node-removed")


(***************************************************************************)
(* Decisions at the end of the alignment                                   *)
(***************************************************************************)
\* The paths of a side the aligner decided: text-highlighted by the
\* structural pass, or marked as a whole by the residual pass.
Decided(side) == IF side = "old" THEN locals.highlightedOld ELSE locals.highlightedNew

SideContainer(side) == IF side = "old" THEN oldContainer ELSE newContainer

\* The element of e holds an inline marker somewhere below it.
HoldsInlineMarker(side, e) ==
    LET node == findNodeByPath(SideContainer(side), e.element)
    IN  \E i \in 1..Len(node.kids) :
            \/ HasClassBelow(node.kids[i], "diff-removed")
            \/ HasClassBelow(node.kids[i], "diff-added")

ChangedGroups(d, dropOp) ==
    SelectSeq(groupWords(processContentWithWords(<<>>,
                            SelectSeq(d, LAMBDA f : f.op # dropOp)), <<>>),
              LAMBDA g : g.isChanged)

\* The text node at path is the only child of a span of class cls.
IsMarkerText(container, path, cls) ==
    LET parent == findNodeByPath(container, SubSeq(path, 1, Len(path) - 1))
    IN  parent.tag = "span" /\ HasClass(parent, cls) /\ Len(parent.kids) = 1

\* For every changed group of the side and every text node the element had
\* before the call whose part in the group is not whitespace only, that
\* part is the text of a marker of class cls after the call.
GroupsWrapped(before, after, element, d, dropOp, cls) ==
    LET groups == ChangedGroups(d, dropOp)
        content == textContent(findNodeByPath(before, element))
    IN  \A g \in Range(groups), t \in Range(extractTextNodesWithPositions(before, element)) :
            LET lo == Max(g.start, t.start)
                hi == Min(g.end, t.end)
            IN  lo < hi /\ HasNonWhitespace(Substring(content, lo, hi)) =>
                    \E m \in Range(extractTextNodesWithPositions(after, element)) :
                        /\ m.start = lo /\ m.end = hi
                        /\ IsMarkerText(after, m.node, cls)

\* C22: after markTextDifferences on a pair, for every changed group, and
\* however many changed groups fall in one text node, the part of each text
\* node in the group that is not whitespace only is wrapped, exactly, in a
\* marker of the change class.
C22_EveryGroupWrapped ==
    [][StructuralPairStep /\ locals'.highlightedOld # locals.highlightedOld =>
        LET i == index' - 1
            oldNode == locals.sortedOldNodes[i]
            newNode == locals.sortedNewNodes[FirstUnpairedOfSignature(i)]
        IN  \E d \in performDiff(oldNode.textContent, newNode.textContent) :
                /\ oldContainer' = markTextDifferencesSide(
                        oldContainer, oldNode.element, d, INSERT, "removed")
                /\ newContainer' = markTextDifferencesSide(
                        newContainer, newNode.element, d, DELETE, "added")
                /\ GroupsWrapped(oldContainer, oldContainer', oldNode.element, d, INSERT,
                                 "diff-removed")
                /\ GroupsWrapped(newContainer, newContainer', newNode.element, d, DELETE,
                                 "diff-added")
    ]_vars

\* The structural pass has highlighted the old paragraph "a  a" against the
\* new paragraph "  ": both letters of the old side were deleted, each a
\* changed group of its own, and a letter of the old side is in no marker.
C22_SecondGroupNotWrapped ==
    /\ pc = "structuralPass"
    /\ locals.highlightedOld # {}
    /\ textContent(oldContainer) = <<"a", SPACE, SPACE, "a">>
    /\ textContent(newContainer) = <<SPACE, SPACE>>
    /\ \E t \in TextRanges(oldContainer) :
        /\ ~InInlineMarker(oldContainer, t.node)
        /\ HasNonWhitespace(findNodeByPath(oldContainer, t.node).text)
    /\ \E t \in TextRanges(oldContainer) :
        /\ ~InInlineMarker(oldContainer, t.node)
        /\ HasNonWhitespace(findNodeByPath(oldContainer, t.node).text)


(***************************************************************************)
(* Paragraphs with several words: a diff of such a text has several        *)
(* changed groups in one text node.                                        *)
(***************************************************************************)
\* Number of texts of WordsPool the old paragraph is drawn from.
NumWordsTexts == 3

WordsPool ==
    << <<"a", SPACE, SPACE, "a">>, <<"a", "a">>, <<"a", SPACE, "a">>,
       <<"a", SPACE, SPACE>>, <<"a", SPACE, "a", SPACE, "a">> >>

WordsTexts == {WordsPool[i] : i \in 1..Min(NumWordsTexts, Len(WordsPool))}

\* The texts of the new paragraph.
ShortTexts == {<<SPACE, SPACE>>, <<"a">>, <<SPACE>>}

InitWords ==
    /\ oldHtml \in {[dom |-> <<P(<<TextNode(t)>>)>>, spelling |-> "canonical"] :
                        t \in WordsTexts}
    /\ newHtml \in {[dom |-> <<P(<<TextNode(t)>>)>>, spelling |-> "canonical"] :
                        t \in ShortTexts}
    /\ diffMode = "side-by-side"
    /\ isProcessing = TRUE
    /\ diffHtml = "empty"
    /\ oldContainer = Container(<<>>)
    /\ newContainer = Container(<<>>)
    /\ pc = "effect"
    /\ branch = "none"
    /\ diffs = {}
    /\ locals = NoLocals
    /\ index = 0
    /\ invoked = {}
    /\ reported = FALSE
    /\ failed = "none"
    /\ changes = 0

NextWords ==
    \/ RunEffect
    \/ PerformDiff
    \/ ExactPass
    \/ StructuralPass
    \/ ResidualPass
    \/ MarkWhitespace
    \/ HighlightText
    \/ Finish

SpecWords == InitWords /\ [][NextWords]_vars

\* The number of inline markers of class cls at or below node.
RECURSIVE MarkerCount(_, _)
MarkerCount(node, cls) ==
    LET below[i \in 0..Len(node.kids)] ==
            IF i = 0 THEN 0 ELSE below[i - 1] + MarkerCount(node.kids[i], cls)
    IN  (IF HasClass(node, cls) THEN 1 ELSE 0) + below[Len(node.kids)]

\* No text node the element had before the call holds, after the call, more
\* than one marker of class cls within its range.
SplitAtMostOnce(before, after, element, cls) ==
    \A t \in Range(extractTextNodesWithPositions(before, element)) :
        Cardinality({m \in Range(extractTextNodesWithPositions(after, element)) :
                        /\ t.start <= m.start /\ m.end <= t.end
                        /\ IsMarkerText(after, m.node, cls)}) <= 1

\* C23: one applyWordHighlighting call splits each original text node at
\* most once, also when several changed groups meet it: after a
\* highlighting step of the structural pass no text node the element had
\* before holds more than one new marker.
C23_SplitOnce ==
    [][StructuralPairStep =>
        LET i == index' - 1
            oldNode == locals.sortedOldNodes[i]
            newNode == locals.sortedNewNodes[FirstUnpairedOfSignature(i)]
        IN  /\ SplitAtMostOnce(oldContainer, oldContainer', oldNode.element, "diff-removed")
            /\ SplitAtMostOnce(newContainer, newContainer', newNode.element, "diff-added")
    ]_vars


\* The structural pass has highlighted the old side against a new text
\* without a letter, so every letter of the old side was in a changed group;
\* the old side holds one marker and a letter outside it: a later group met
\* the text node that was already split, and did not split it again.
C23_LaterGroupLeftNodeAlone ==
    /\ pc = "structuralPass"
    /\ locals.highlightedOld # {}
    /\ ~HasNonWhitespace(textContent(newContainer))
    /\ MarkerCount(oldContainer, "diff-removed") = 1
    /\ \E t \in TextRanges(oldContainer) :
        /\ ~InInlineMarker(oldContainer, t.node)
        /\ HasNonWhitespace(findNodeByPath(oldContainer, t.node).text)


(***************************************************************************)
(* Markers of the text-diff applicator                                     *)
(***************************************************************************)
\* Offset k of the container's text is inside one of the ranges.
InRanges(ranges, k) ==
    \E i \in 1..Len(ranges) : ranges[i].start <= k /\ k < ranges[i].end

\* The characters of the container inside an element of class cls are those
\* of the ranges, no more and no less.
MarkedExactly(container, ranges, cls) ==
    \A t \in TextRanges(container) :
        \A k \in t.start..(t.end - 1) :
            InMarkerOf(container, t.node, cls) <=> InRanges(ranges, k)

\* C24: in the TextualDiff branch the characters inside diff-removed
\* markers of the old side (diff-added markers of the new side) after
\* applyTextNodeChanges are exactly the characters at the offsets of the
\* delete (insert) fragments of the diff, also when a range spans several
\* text nodes under one parent.
C24_MarkersAtDiffOffsets ==
    [][pc = "applyTextNodeChanges" /\ pc' = "finish" =>
        \E d \in diffs :
            /\ HighlightedWith(d)
            /\ MarkedExactly(oldContainer', ChangesFrom(d, DELETE, "removed", 0),
                             "diff-removed")
            /\ MarkedExactly(newContainer', ChangesFrom(d, INSERT, "added", 0),
                             "diff-added")
    ]_vars

\* The TextualDiff branch has ended on the old text 'a', no-break space,
\* two spaces against the new text 'a': the deleted range [1, 4) spans two
\* text nodes of one parent, and the two spaces at its end are in a text
\* node outside every diff-removed marker.
C24_RangeEndUnmarked ==
    /\ pc = "finish" /\ branch = "TextualDiff" /\ failed = "none"
    /\ "applyTextNodeChanges" \in invoked
    /\ textContent(oldContainer) = <<"a", NBSP, SPACE, SPACE>>
    /\ textContent(newContainer) = <<"a">>
    /\ \E t \in TextRanges(oldContainer) :
        /\ t.start = 2 /\ t.end = 4
        /\ ~InMarkerOf(oldContainer, t.node, "diff-removed")


(***************************************************************************)
(* Word tokenisation of the changed fragments                              *)
(***************************************************************************)
\* The offset at which fragment i of the script d starts in the
\* concatenation of all the fragments of d.
FragmentStart(d, i) == Len(Flatten([j \in 1..(i - 1) |-> d[j].text]))

FragmentEnd(d, i) == FragmentStart(d, i) + Len(d[i].text)

\* All characters of the text are of class cls.
AllOfClass(text, cls) == \A k \in 1..Len(text) : CharClass(text[k]) = cls

\* Fragment j of r is cut out of fragment i of e.
CutFrom(e, i, r, j) ==
    /\ FragmentStart(e, i) <= FragmentStart(r, j)
    /\ FragmentEnd(r, j) <= FragmentEnd(e, i)
    /\ r[j].op = e[i].op
    /\ r[j].text = SubSeq(e[i].text, FragmentStart(r, j) - FragmentStart(e, i) + 1,
                                     FragmentEnd(r, j) - FragmentStart(e, i))

\* Fragment j of r, cut out of the changed fragment i of e, is one token:
\* a run of word characters that no word character of the fragment
\* precedes or follows, one punctuation character, or a run of whitespace.
IsToken(e, i, r, j) ==
    LET from == FragmentStart(r, j) - FragmentStart(e, i)
        to == FragmentEnd(r, j) - FragmentStart(e, i)
        text == e[i].text
    IN  \/ /\ AllOfClass(r[j].text, "w")
            /\ (from > 0 => CharClass(text[from]) # "w")
            /\ (to < Len(text) => CharClass(text[to + 1]) # "w")
        \/ Len(r[j].text) = 1 /\ CharClass(r[j].text[1]) = "p"
        \/ AllOfClass(r[j].text, "s")

\* r is e with its equal fragments kept and every changed fragment replaced
\* by its tokens, in order.
Retokenised(e, r) ==
    /\ Flatten([j \in 1..Len(r) |-> r[j].text]) = Flatten([i \in 1..Len(e) |-> e[i].text])
    /\ \A j \in 1..Len(r) :
        /\ r[j].text # <<>>
        /\ \E i \in 1..Len(e) :
            /\ CutFrom(e, i, r, j)
            /\ IF e[i].op = EQUAL THEN r[j] = e[i] ELSE IsToken(e, i, r, j)

\* C25: forceDiffByWords keeps every equal fragment and replaces every
\* delete / insert fragment by fragments of the same op, in order, whose
\* concatenation is the fragment and each of which is a maximal run of word
\* characters, one punctuation character, or a run of whitespace.  Checked
\* on every script performDiff hands to forceDiffByWords.
C25_WordTokenisation ==
    pc = "deepCompare" =>
        \A e \in cleanedDiffs(textContent(oldContainer), textContent(newContainer)) :
            /\ forceDiffByWords(e) \in diffs
            /\ Retokenised(e, forceDiffByWords(e))

\* performDiff has returned a script in which a changed fragment was cut:
\* a word and a punctuation character or whitespace of the same op follow
\* each other.
C25_FragmentCut ==
    /\ pc = "deepCompare"
    /\ \E d \in diffs : \E j \in 1..(Len(d) - 1) :
        /\ d[j].op # EQUAL
        /\ d[j + 1].op = d[j].op
        /\ AllOfClass(d[j].text, "w")
        /\ ~AllOfClass(d[j + 1].text, "w")


(***************************************************************************)
(* Text spans                                                              *)
(***************************************************************************)
RECURSIVE ElementPathsBelow(_, _)
\* The childNodes paths of the elements at or below node, itself at path.
ElementPathsBelow(node, path) ==
    IF IsText(node) THEN {}
    ELSE {path} \cup UNION {ElementPathsBelow(node.kids[i], Append(path, i - 1)) :
                                i \in 1..Len(node.kids)}

\* The spans, each <<path, start, end>>, are those of one walk over the
\* text nodes of root: in document order, from offset 0, each starting
\* where the one before ends and as long as its text node, the last ending
\* at the length of root's text.  prefix is the path of root in the tree
\* the paths are taken in.
SpansOfOneWalk(root, prefix, spans) ==
    /\ \A k \in 1..Len(spans) :
        /\ IsPrefix(prefix, spans[k][1])
        /\ LET node == findNodeByPath(root, SubstringFrom(spans[k][1], Len(prefix)))
           IN  /\ IsText(node)
               /\ spans[k][3] - spans[k][2] = Len(node.text)
               /\ node.text = SubSeq(textContent(root), spans[k][2] + 1, spans[k][3])
        /\ spans[k][2] = (IF k = 1 THEN 0 ELSE spans[k - 1][3])
        /\ k > 1 => PathBefore(spans[k - 1][1], spans[k][1])
    /\ (IF spans = <<>> THEN 0 ELSE spans[Len(spans)][3]) = Len(textContent(root))

\* Both walks of the element at path of the container give such spans.
WalksGiveSpans(container, path) ==
    LET element == findNodeByPath(container, path)
        plain == extractTextNodes(element)
        positioned == extractTextNodesWithPositions(container, path)
    IN  /\ SpansOfOneWalk(element, <<>>,
                [k \in 1..Len(plain) |->
                    <<plain[k].path, plain[k].startPos, plain[k].endPos>>])
        /\ \A k \in 1..Len(plain) :
                plain[k].text = findNodeByPath(element, plain[k].path).text
        /\ SpansOfOneWalk(element, path,
                [k \in 1..Len(positioned) |->
                    <<positioned[k].node, positioned[k].start, positioned[k].end>>])

\* C26: for every element of either tree, at every point of a pass, the
\* spans of one text-node walk (extractTextNodes and
\* extractTextNodesWithPositions) are in document order, start at 0, are
\* contiguous and as long as their text nodes, and end at the length of the
\* element's text.
C26_ContiguousSpans ==
    /\ \A path \in ElementPathsBelow(oldContainer, <<>>) : WalksGiveSpans(oldContainer, path)
    /\ \A path \in ElementPathsBelow(newContainer, <<>>) : WalksGiveSpans(newContainer, path)

\* A highlighted tree: the text of the old container is spread over three
\* text nodes or more, one of them inside an inline marker and not the
\* first.
C26_SeveralSpans ==
    /\ pc = "finish" /\ failed = "none"
    /\ Len(extractTextNodes(oldContainer)) >= 3
    /\ \E k \in 2..Len(extractTextNodes(oldContainer)) :
        /\ InInlineMarker(oldContainer, extractTextNodes(oldContainer)[k].path)
        /\ extractTextNodes(oldContainer)[k].startPos > 0


(***************************************************************************)
(* Elements with several attributes, in any order.                         *)
(***************************************************************************)
\* Longest attribute list of an element.
MaxAttrs == 2

AttrPool ==
    {Attr("class", <<"x">>), Attr("id", <<"y">>), Attr("id", <<"z">>),
     Attr("data-lexical-text", <<"true">>)}

\* The attribute lists of an element: no name twice.
AttrLists ==
    {l \in UNION {[1..n -> AttrPool] : n \in 0..MaxAttrs} :
        \A i, j \in 1..Len(l) : i # j => l[i].name # l[j].name}

InitAttrs ==
    /\ oldHtml \in {[dom |-> <<Element("p", l, <<TextNode(<<"a">>)>>)>>,
                      spelling |-> "canonical"] : l \in AttrLists}
    /\ newHtml \in {[dom |-> <<Element(tag, l, kids)>>, spelling |-> "canonical"] :
                        tag \in {"p", "div"}, l \in AttrLists,
                        kids \in {<<TextNode(<<"a">>)>>, <<>>}}
    /\ diffMode = "side-by-side"
    /\ isProcessing = TRUE
    /\ diffHtml = "empty"
    /\ oldContainer = Container(<<>>)
    /\ newContainer = Container(<<>>)
    /\ pc = "effect"
    /\ branch = "none"
    /\ diffs = {}
    /\ locals = NoLocals
    /\ index = 0
    /\ invoked = {}
    /\ reported = FALSE
    /\ failed = "none"
    /\ changes = 0

NextAttrs ==
    \/ RunEffect
    \/ PerformDiff
    \/ ExactPass
    \/ StructuralPass
    \/ ResidualPass
    \/ MarkWhitespace
    \/ HighlightText
    \/ Finish

SpecAttrs == InitAttrs /\ [][NextAttrs]_vars

\* The name/value pairs of the attributes of node outside the editor's
\* namespace, as a set.
AttributePairs(node) ==
    {<<node.attrs[i].name, node.attrs[i].value>> :
        i \in {k \in 1..Len(node.attrs) : ~IsLexicalAttr(node.attrs[k].name)}}

\* Same tag, same attribute pairs in any order, same child count.
SameShape(m, n) ==
    /\ m.tag = n.tag
    /\ AttributePairs(m) = AttributePairs(n)
    /\ Len(m.kids) = Len(n.kids)

\* C27: two elements have equal signatures exactly when they have the same
\* tag name, the same set of attribute name/value pairs outside the
\* editor's namespace, whatever the order of the attributes, and the same
\* child count.  Read on the node maps when the exact pass has ended and no
\* element has been touched yet.
C27_SignatureIgnoresAttributeOrder ==
    AfterExactPass =>
        \A e \in SideElements("old") : \A f \in SideElements("new") :
            (e.signature = f.signature) <=>
                SameShape(findNodeByPath(oldContainer, e.element),
                          findNodeByPath(newContainer, f.element))

\* Two elements that differ in the order of their attributes only have
\* different signatures, and the exact pass has left them unpaired although
\* their texts are equal.
C27_ReorderedAttributesDiffer ==
    /\ AfterExactPass
    /\ \E e \in SideElements("old") : \E f \in SideElements("new") :
        /\ SameShape(findNodeByPath(oldContainer, e.element),
                     findNodeByPath(newContainer, f.element))
        /\ Cardinality(AttributePairs(findNodeByPath(oldContainer, e.element))) = 2
        /\ e.textContent = f.textContent
        /\ e.signature # f.signature
        /\ ~IsPaired("old", e)


(***************************************************************************)
(* The pairing                                                             *)
(***************************************************************************)
\* The step is one of the exact pass or of the structural pass.
AlignerStep ==
    \/ pc = "deepCompare" /\ pc' = "structuralPass"
    \/ pc = "structuralPass" /\ pc' \in {"structuralPass", "residualPass"}

\* No two old paths of the mapping have the same new path.
OneToOne(mapping) ==
    \A o1, o2 \in DOMAIN mapping : mapping[o1] = mapping[o2] => o1 = o2

\* The entry of the sorted list with the given path.
EntryAt(sorted, path) ==
    sorted[CHOOSE k \in 1..Len(sorted) : sorted[k].path = path]

\* Every pair of the mapping of l joins an old and a new node of equal
\* signatures.
PairsHaveEqualSignatures(l) ==
    \A o \in DOMAIN l.nodeMapping :
        /\ \E k \in 1..Len(l.sortedOldNodes) : l.sortedOldNodes[k].path = o
        /\ \E k \in 1..Len(l.sortedNewNodes) : l.sortedNewNodes[k].path = l.nodeMapping[o]
        /\ EntryAt(l.sortedOldNodes, o).signature
                = EntryAt(l.sortedNewNodes, l.nodeMapping[o]).signature

\* The mapping `after` is `before` with new pairs only: no pair of before is
\* changed and no end of a pair of before is in a new pair.
OnlyNewPairs(before, after) ==
    /\ \A o \in DOMAIN before : o \in DOMAIN after /\ after[o] = before[o]
    /\ \A o \in DOMAIN after \ DOMAIN before :
            \A b \in DOMAIN before : after[o] # before[b]

\* C28: after every step of the alignment the pairing is one-to-one and
\* every pair has equal signatures, and a step of the structural pass
\* leaves the pairs made before it as they are: a node paired in the exact
\* pass is not paired again.
C28_PairingOneToOne ==
    [][AlignerStep =>
        /\ OneToOne(locals'.nodeMapping)
        /\ PairsHaveEqualSignatures(locals')
        /\ (pc = "structuralPass" => OnlyNewPairs(locals.nodeMapping, locals'.nodeMapping))
    ]_vars

\* The structural pass has paired two nodes of different texts while the
\* mapping holds a pair of the exact pass, of equal texts and of the same
\* signature.
C28_StructuralPairNextToExactPair ==
    /\ pc = "structuralPass"
    /\ \E o1, o2 \in DOMAIN locals.nodeMapping :
        LET old1 == EntryAt(locals.sortedOldNodes, o1)
            new1 == EntryAt(locals.sortedNewNodes, locals.nodeMapping[o1])
            old2 == EntryAt(locals.sortedOldNodes, o2)
            new2 == EntryAt(locals.sortedNewNodes, locals.nodeMapping[o2])
        IN  /\ old1.textContent = new1.textContent
            /\ old2.textContent # new2.textContent
            /\ old1.signature = old2.signature


(***************************************************************************)
(* What the exact pass leaves to the structural pass                       *)
(***************************************************************************)
\* The indices of the entries of sorted with the given signature and text.
ClassOf(sorted, signature, text) ==
    {k \in 1..Len(sorted) : sorted[k].signature = signature /\ sorted[k].textContent = text}

\* The indices of the old (new) nodes of l that are in a pair.
PairedOld(l) ==
    {k \in 1..Len(l.sortedOldNodes) : l.sortedOldNodes[k].path \in DOMAIN l.nodeMapping}

PairedNew(l) ==
    {k \in 1..Len(l.sortedNewNodes) :
        \E o \in DOMAIN l.nodeMapping : l.nodeMapping[o] = l.sortedNewNodes[k].path}

\* No unpaired old node and unpaired new node of l have the same signature
\* and the same text, and of every class of signature and text as many
\* nodes are paired as the smaller side has.
ExactFitsExhausted(l) ==
    \A i \in 1..Len(l.sortedOldNodes) :
        LET old == ClassOf(l.sortedOldNodes, l.sortedOldNodes[i].signature,
                           l.sortedOldNodes[i].textContent)
            new == ClassOf(l.sortedNewNodes, l.sortedOldNodes[i].signature,
                           l.sortedOldNodes[i].textContent)
        IN  /\ old \subseteq PairedOld(l) \/ new \subseteq PairedNew(l)
            /\ Cardinality(old \cap PairedOld(l))
                    = Min(Cardinality(old), Cardinality(new))
            /\ Cardinality(new \cap PairedNew(l))
                    = Min(Cardinality(old), Cardinality(new))

\* C29: when the exact pass ends no unpaired old node and unpaired new node
\* have equal signature and equal text (of every class the exact pass
\* pairs as many nodes as the smaller side has), and every pair the
\* structural pass makes joins nodes of different texts.
C29_StructuralPairsDiffer ==
    [][/\ (pc = "deepCompare" /\ pc' = "structuralPass" => ExactFitsExhausted(locals'))
       /\ (StructuralPairStep =>
                locals.sortedOldNodes[index' - 1].textContent
                    # locals.sortedNewNodes[FirstUnpairedOfSignature(index' - 1)].textContent)
    ]_vars

\* Two old nodes of one signature and text met one new node of that class:
\* the exact pass paired one of them, and the structural pass has paired
\* the other with a new node of another text.
C29_SecondOfClassPairedStructurally ==
    /\ pc = "structuralPass"
    /\ \E i, h \in 1..Len(locals.sortedOldNodes), j, k \in 1..Len(locals.sortedNewNodes) :
        /\ i # h
        /\ locals.sortedOldNodes[i].signature = locals.sortedOldNodes[h].signature
        /\ locals.sortedOldNodes[i].textContent = locals.sortedOldNodes[h].textContent
        /\ PairedWith(h, k) /\ ExactFit(h, k)
        /\ PairedWith(i, j) /\ ~ExactFit(i, j)


(***************************************************************************)
(* Nesting of inline markers                                               *)
(***************************************************************************)
\* The ancestors of the node at path that are inline markers, by the length
\* of their paths.
InlineMarkersAbove(container, path) ==
    {k \in 1..(Len(path) - 1) :
        LET ancestor == findNodeByPath(container, SubSeq(path, 1, k))
        IN  HasClass(ancestor, "diff-removed") \/ HasClass(ancestor, "diff-added")}

\* Every text node of the container is inside one inline marker at most.
NoNestedInlineMarker(container) ==
    \A t \in TextRanges(container) :
        Cardinality(InlineMarkersAbove(container, t.node)) <= 1

\* C30: in the output of a side-by-side pass every character lies inside at
\* most one diff-removed / diff-added marker: no inline marker is nested
\* inside another, whichever of the aligner and the text highlighter of the
\* whole container made them.
C30_NoNestedInlineMarker ==
    pc = "finish" /\ failed = "none" /\ SideBySide =>
        NoNestedInlineMarker(oldContainer) /\ NoNestedInlineMarker(newContainer)

\* A pass over the old text 'a' and the new text 'b', two spaces has ended
\* with the removed letter inside two diff-removed markers, one made by the aligner
\* and one by applyTextNodeChanges.
C30_MarkerInsideMarker ==
    /\ pc = "finish" /\ failed = "none" /\ SideBySide
    /\ branch = "TextualDiff"
    /\ textContent(oldContainer) = <<"a">>
    /\ textContent(newContainer) = <<"b", SPACE, SPACE>>
    /\ locals.highlightedOld # {}
    /\ "applyTextNodeChanges" \in invoked
    /\ \E t \in TextRanges(oldContainer) :
            Cardinality(InlineMarkersAbove(oldContainer, t.node)) = 2

====
